---- MODULE Spec2Model ----
(***************************************************************************)
(* Model of the HLS knowledge-base rollback tool                           *)
(* (examples/fir128/logger-rollback.py): manifest generation, preview and  *)
(* transactional execution of a rollback against the entity store.         *)
(***************************************************************************)
EXTENDS Integers, Sequences, FiniteSets, TLC

\* Longest hand-written manifest (number of entries) the operator supplies.
MaxLen == 3

(***************************************************************************)
(* The entity store: rows of the FIR128 data set.                          *)
(***************************************************************************)

\* Rows of the demo data set: one project, its three iterations, one
\* synthesis result per iteration, one rule and its effectiveness row.
Rows == {"p1", "i1", "i2", "i3", "s1", "s2", "s3", "r1", "e1"}

TableOf(r) ==
    CASE r = "p1" -> "projects"
      [] r \in {"i1", "i2", "i3"} -> "design_iterations"
      [] r \in {"s1", "s2", "s3"} -> "synthesis_results"
      [] r = "e1" -> "rules_effectiveness"
      [] OTHER -> "hls_rules"

\* Foreign keys: synthesis_results.iteration_id, design_iterations.project_id,
\* rules_effectiveness.rule_id.  "" for a row without a parent.
ParentOf(r) ==
    CASE r \in {"i1", "i2", "i3"} -> "p1"
      [] r = "s1" -> "i1"
      [] r = "s2" -> "i2"
      [] r = "s3" -> "i3"
      [] r = "e1" -> "r1"
      [] OTHER -> ""

\* design_iterations.iteration_number
IterationNumber(r) ==
    CASE r = "i1" -> 1
      [] r = "i2" -> 2
      [] r = "i3" -> 3
      [] OTHER -> 0

\* projects.name and projects.type of the demo project; rules_effectiveness.project_type.
ProjectName(r) == IF r = "p1" THEN "FIR128_Optimization_Demo" ELSE ""
ProjectType(r) == IF r \in {"p1", "e1"} THEN "fir" ELSE ""

FullStore == Rows

\* Store contents a backup can hold: the imported data set, the data set
\* before iteration 3 was recorded, and a store with rules only.
Snapshots == {FullStore, FullStore \ {"i3", "s3"}, {"r1"}}

(***************************************************************************)
(* Manifests (rollback logs).                                              *)
(***************************************************************************)

EntryOf(r) == [table |-> TableOf(r), id |-> r]

\* No manifest file on disk.
NoLog == [project |-> "", iteration |-> 0, records |-> <<>>,
          status |-> "absent", stamped |-> FALSE]

\* Rows an operator-supplied manifest may list.
ManifestRows == {"p1", "i2", "i3", "s3", "e1", "r1"}

SeqsUpTo(S, n) == UNION {[1..k -> S] : k \in 1..n}

\* A declared order that lists parents before their children.
ROLLBACK_ORDER_ParentsFirst ==
    <<"projects", "design_patterns", "design_iterations",
      "rules_effectiveness", "synthesis_results">>

\* Rollback order (child -> parent, respecting the foreign keys).
ROLLBACK_ORDER ==
    <<"synthesis_results", "rules_effectiveness", "design_iterations",
      "design_patterns", "projects">>

Range(s) == {s[k] : k \in 1..Len(s)}

\* _determine_order: the manifest's tables, in ROLLBACK_ORDER.
DetermineOrder(records) ==
    LET tables == {records[k].table : k \in 1..Len(records)}
        In(t) == t \in tables
    IN SelectSeq(ROLLBACK_ORDER, In)

\* table_records = [r for r in records if r['table'] == table]
TableRecords(records, table) ==
    LET Of(r) == r.table = table
    IN SelectSeq(records, Of)

RECURSIVE PlanFor(_, _)
PlanFor(order, records) ==
    IF order = <<>> THEN <<>>
    ELSE TableRecords(records, Head(order)) \o PlanFor(Tail(order), records)

\* The DELETE statements of a rollback, in the order the two loops issue them.
DeletePlan(records) == PlanFor(DetermineOrder(records), records)

(***************************************************************************)
(* The entity store's DELETE, as the rollback issues it.                   *)
(***************************************************************************)

Children(st, S) == {r \in st : ParentOf(r) \in S}

\* The row and everything that references it, directly or not.
WithDependents(st, id) ==
    LET c1 == Children(st, {id})
        c2 == Children(st, c1)
    IN {id} \cup c1 \cup c2

\* A DELETE that raises when it matches no row.
DeleteRow_MustExist(st, table, id, policy) ==
    IF ~(id \in st /\ TableOf(id) = table)
    THEN [ok |-> FALSE, st |-> st]
    ELSE IF Children(st, {id}) = {}
    THEN [ok |-> TRUE, st |-> st \ {id}]
    ELSE IF policy = "cascade"
    THEN [ok |-> TRUE, st |-> st \ WithDependents(st, id)]
    ELSE [ok |-> FALSE, st |-> st]

\* DELETE FROM table WHERE id = $1 inside the transaction.  A row that is
\* absent matches nothing and the statement succeeds.  A row that is still
\* referenced raises under ON DELETE RESTRICT / NO ACTION and takes its
\* dependents with it under ON DELETE CASCADE.
DeleteRow(st, table, id, policy) ==
    IF ~(id \in st /\ TableOf(id) = table)
    THEN [ok |-> TRUE, st |-> st]
    ELSE IF Children(st, {id}) = {}
    THEN [ok |-> TRUE, st |-> st \ {id}]
    ELSE IF policy = "cascade"
    THEN [ok |-> TRUE, st |-> st \ WithDependents(st, id)]
    ELSE [ok |-> FALSE, st |-> st]

(***************************************************************************)
(* logger_by_project                                                       *)
(***************************************************************************)

\* SELECT * FROM projects WHERE name = $1 ... LIMIT 1 ("" when not found)
FindProject(st, project_name) ==
    IF \E r \in st : TableOf(r) = "projects" /\ ProjectName(r) = project_name
    THEN CHOOSE r \in st : TableOf(r) = "projects" /\ ProjectName(r) = project_name
    ELSE ""

\* Iterations in creation order, newest first (ORDER BY created_at DESC).
CreatedDesc == <<"i3", "i2", "i1">>

\* The iterations the logger selects: the one with the given number when
\* an iteration is given (0 stands for None), all of the project otherwise.
FindIterations(st, project_id, iteration) ==
    LET Sel(r) == /\ r \in st
                  /\ ParentOf(r) = project_id
                  /\ (iteration # 0 => IterationNumber(r) = iteration)
    IN SelectSeq(CreatedDesc, Sel)

\* SELECT * FROM synthesis_results WHERE iteration_id = $1
SynthesisOf(st, iter_id) ==
    LET Sel(r) == r \in st /\ ParentOf(r) = iter_id
    IN SelectSeq(<<"s1", "s2", "s3">>, Sel)

EntriesOf(rows) == [k \in 1..Len(rows) |-> EntryOf(rows[k])]

RECURSIVE IterationRecords(_, _)
IterationRecords(st, iters) ==
    IF iters = <<>> THEN <<>>
    ELSE <<EntryOf(Head(iters))>> \o EntriesOf(SynthesisOf(st, Head(iters)))
         \o IterationRecords(st, Tail(iters))

\* SELECT * FROM rules_effectiveness WHERE project_type = $1
RulesEffectivenessOf(st, project_type) ==
    LET Sel(r) == /\ r \in st
                  /\ TableOf(r) = "rules_effectiveness"
                  /\ ProjectType(r) = project_type
    IN SelectSeq(<<"e1">>, Sel)

\* The records list logger_by_project collects.
LoggerRecords(st, project_id, iteration) ==
    <<EntryOf(project_id)>>
    \o IterationRecords(st, FindIterations(st, project_id, iteration))
    \o EntriesOf(RulesEffectivenessOf(st, ProjectType(project_id)))

\* log_data of _generate_log_file
NewLog(project_name, iteration, records) ==
    [project |-> project_name, iteration |-> iteration, records |-> records,
     status |-> "pending", stamped |-> FALSE]

(***************************************************************************)
(* Operator answers to the confirmation prompts.                           *)
(***************************************************************************)

Responses == {"y", "yes", "Y", " Yes ", "n", "no", "", "ok"}

\* input(...).strip().lower()
StripLower(resp) ==
    CASE resp = "Y" -> "y"
      [] resp = " Yes " -> "yes"
      [] OTHER -> resp

Affirmative(resp) == StripLower(resp) \in {"y", "yes"}

(***************************************************************************)
(* State.                                                                  *)
(***************************************************************************)

VARIABLES
    store,      \* committed content of the entity store (set of rows)
    backup,     \* content of the SQL backup restore_backup loads
    fkPolicy,   \* ON DELETE behaviour of the schema's foreign keys
    log,        \* the manifest file on disk
    pc,         \* position of the rollback command
    dry_run,    \* --dry-run
    log_data,   \* the manifest as read at the start of rollback()
    store0,     \* store content when rollback() was entered
    txStore,    \* store content as seen inside the open transaction
    issued,     \* DELETE statements executed so far, in order
    overridden, \* the "Continue anyway?" prompt was answered affirmatively
    committed,  \* the deletion transaction committed in this call
    result,     \* return value of rollback(): "none", "true", "false"
    told,       \* what the operator was last told
    failure     \* where an exception was raised: "none", "delete", "write"

\* State of the knowledge base behind the recording API and the import jobs.
VARIABLES
    rules,      \* hls_rules: set of [id, code, text]; code "" is NULL
    projects,   \* projects: set of [id, name]
    iters,      \* design_iterations in insertion order: [id, project, num]
    synths,     \* synthesis_results: set of [id, iter]
    eff,        \* rules_effectiveness: set of [id, rule, ptype, times, succ, avg]
    uniqueIter, \* the schema declares UNIQUE (project_id, iteration_number)
    query,      \* arguments of the last find_matching_rule call
    matched,    \* what that call returned
    lastOp,     \* the last operation and, for a statistics call, its arguments
    prevOp,     \* name of the operation before the last one
    track       \* per (rule, project type): the accumulate-mode applications so far

\* State the later specifications add: the logs directory and the prompts of
\* the rollback tool, deleted rows, further schema constraints, and the
\* requests in flight.
VARIABLES
    logs,       \* names of the manifest files in logs/: [project, iteration]
    answers,    \* what was answered at each prompt of the current invocation
    deleted,    \* rows deleted from the knowledge base: set of [table, id]
    uniqueKeys, \* further unique constraints the schema declares
    calls       \* per API caller: position and the row it has read

extVars == <<logs, answers, deleted, uniqueKeys, calls>>

kbVars == <<rules, projects, iters, synths, eff, uniqueIter, query, matched,
            lastOp, prevOp, track, extVars>>

Unasked == [override |-> "unasked", proceed |-> "unasked"]

ExtIdle ==
    /\ logs = <<>>
    /\ answers = Unasked
    /\ deleted = {}
    /\ uniqueKeys = {}
    /\ calls = <<>>

rbVars == <<store, backup, fkPolicy, log, pc, dry_run, log_data, store0,
            txStore, issued, overridden, committed, result, told, failure>>

vars == <<rbVars, kbVars>>

NoOp == [op |-> "none"]

\* The knowledge base as the rollback tool's specification leaves it: not modelled.
KbIdle ==
    /\ rules = {}
    /\ projects = {}
    /\ iters = <<>>
    /\ synths = {}
    /\ eff = {}
    /\ uniqueIter = FALSE
    /\ query = NoOp
    /\ matched = NoOp
    /\ lastOp = NoOp
    /\ prevOp = "none"
    /\ track = <<>>
    /\ ExtIdle

callVars == <<dry_run, log_data, store0, txStore, issued, overridden,
              committed, result, told, failure>>

Init ==
    /\ store \in Snapshots
    /\ backup = store
    /\ fkPolicy \in {"restrict", "cascade"}
    /\ log = NoLog
    /\ pc = "idle"
    /\ dry_run = FALSE
    /\ log_data = NoLog
    /\ store0 = {}
    /\ txStore = {}
    /\ issued = <<>>
    /\ overridden = FALSE
    /\ committed = FALSE
    /\ result = "none"
    /\ told = "none"
    /\ failure = "none"
    /\ KbIdle

(***************************************************************************)
(* Manifest creation.                                                      *)
(***************************************************************************)

\* logger --project NAME [--iteration N]: writes a pending manifest, or
\* nothing when the project or the iterations are not found.
LoggerByProject(project_name, iteration) ==
    /\ pc = "idle"
    /\ log = NoLog
    /\ LET project_id == FindProject(store, project_name)
       IN IF project_id = "" \/ FindIterations(store, project_id, iteration) = <<>>
          THEN log' = log
          ELSE log' = NewLog(ProjectName(project_id), iteration,
                             LoggerRecords(store, project_id, iteration))
    /\ UNCHANGED <<store, backup, fkPolicy, pc, callVars>>

\* The operator hands the rollback command a manifest file written or
\* edited by hand: any entries, in any order, status pending.
OperatorManifest(rows) ==
    /\ pc = "idle"
    /\ log = NoLog
    /\ log' = NewLog("MANUAL", 0, EntriesOf(rows))
    /\ UNCHANGED <<store, backup, fkPolicy, pc, callVars>>

\* restore_backup: the store is dropped and reloaded from the backup.
RestoreBackup(confirm) ==
    /\ pc = "idle"
    /\ confirm = "yes"
    /\ store # backup
    /\ store' = backup
    /\ UNCHANGED <<backup, fkPolicy, log, pc, callVars>>

(***************************************************************************)
(* rollback                                                                *)
(***************************************************************************)

\* The operator is told the outcome and rollback() returns False.
ReturnFalse(msg, why) ==
    /\ pc' = "done"
    /\ result' = "false"
    /\ told' = msg
    /\ failure' = why

\* rollback(log_file, dry_run): the manifest is read and its status checked.
Rollback(d) ==
    /\ pc = "idle"
    /\ log # NoLog
    /\ dry_run' = d
    /\ log_data' = log
    /\ store0' = store
    /\ txStore' = store
    /\ issued' = <<>>
    /\ overridden' = FALSE
    /\ committed' = FALSE
    /\ result' = "none"
    /\ told' = "none"
    /\ failure' = "none"
    /\ pc' = IF log.status = "completed" THEN "override"
             ELSE IF d THEN "dry_run" ELSE "confirm"
    /\ UNCHANGED <<store, backup, fkPolicy, log>>

\* The status check that goes on whatever the operator answers.
AnswerOverride_Unchecked(resp) ==
    /\ pc = "override"
    /\ pc' = IF dry_run THEN "dry_run" ELSE "confirm"
    /\ UNCHANGED <<store, backup, fkPolicy, log, dry_run, log_data, store0,
                   txStore, issued, overridden, committed, result, told,
                   failure>>

\* "This log has already been rolled back. Continue anyway? [y/N]"
AnswerOverride(resp) ==
    /\ pc = "override"
    /\ IF Affirmative(resp)
       THEN /\ overridden' = TRUE
            /\ pc' = IF dry_run THEN "dry_run" ELSE "confirm"
            /\ UNCHANGED <<result, told, failure>>
       ELSE /\ ReturnFalse("already_rolled_back", "none")
            /\ UNCHANGED overridden
    /\ UNCHANGED <<store, backup, fkPolicy, log, dry_run, log_data, store0,
                   txStore, issued, committed>>

\* A rollback that ignores the dry-run flag and opens the transaction.
DryRunRollback_Executes ==
    /\ pc = "dry_run"
    /\ pc' = "tx"
    /\ txStore' = store
    /\ UNCHANGED <<store, backup, fkPolicy, log, dry_run, log_data, store0,
                   issued, overridden, committed, result, told, failure>>

\* _dry_run_rollback: the plan is printed, nothing is executed.
DryRunRollback ==
    /\ pc = "dry_run"
    /\ pc' = "done"
    /\ result' = "true"
    /\ told' = "preview"
    /\ UNCHANGED <<store, backup, fkPolicy, log, dry_run, log_data, store0,
                   txStore, issued, overridden, committed, failure>>

\* A proceed prompt that takes the empty answer for consent.
AnswerProceed_EmptyIsYes(resp) ==
    /\ pc = "confirm"
    /\ IF Affirmative(resp) \/ resp = ""
       THEN /\ pc' = "tx"
            /\ txStore' = store
            /\ UNCHANGED <<result, told, failure>>
       ELSE /\ ReturnFalse("cancelled", "none")
            /\ UNCHANGED txStore
    /\ UNCHANGED <<store, backup, fkPolicy, log, dry_run, log_data, store0,
                   issued, overridden, committed>>

\* "Proceed with rollback? [y/N]"; an affirmative answer opens the transaction.
AnswerProceed(resp) ==
    /\ pc = "confirm"
    /\ IF Affirmative(resp)
       THEN /\ pc' = "tx"
            /\ txStore' = store
            /\ UNCHANGED <<result, told, failure>>
       ELSE /\ ReturnFalse("cancelled", "none")
            /\ UNCHANGED txStore
    /\ UNCHANGED <<store, backup, fkPolicy, log, dry_run, log_data, store0,
                   issued, overridden, committed>>

\* The next statement of the two loops of _execute_rollback.
NextDelete == DeletePlan(log_data.records)[Len(issued) + 1]

\* await self.conn.execute(sql, rec_id): the statement succeeds.
ExecuteDelete ==
    /\ pc = "tx"
    /\ Len(issued) < Len(DeletePlan(log_data.records))
    /\ LET res == DeleteRow(txStore, NextDelete.table, NextDelete.id, fkPolicy)
       IN /\ res.ok
          /\ txStore' = res.st
    /\ issued' = Append(issued, NextDelete)
    /\ UNCHANGED <<store, backup, fkPolicy, log, pc, dry_run, log_data, store0,
                   overridden, committed, result, told, failure>>

\* The same failure without a transaction around the loops: the earlier
\* statements have already taken effect.
ExecuteDeleteRaises_NoTransaction ==
    /\ pc = "tx"
    /\ Len(issued) < Len(DeletePlan(log_data.records))
    /\ ~DeleteRow(txStore, NextDelete.table, NextDelete.id, fkPolicy).ok
    /\ issued' = Append(issued, NextDelete)
    /\ store' = txStore
    /\ UNCHANGED txStore
    /\ ReturnFalse("no_changes", "delete")
    /\ UNCHANGED <<backup, fkPolicy, log, dry_run, log_data, store0,
                   overridden, committed>>

\* The statement raises: the transaction block is left by the exception,
\* which rolls the transaction back, and the except clause reports failure.
ExecuteDeleteRaises ==
    /\ pc = "tx"
    /\ Len(issued) < Len(DeletePlan(log_data.records))
    /\ ~DeleteRow(txStore, NextDelete.table, NextDelete.id, fkPolicy).ok
    /\ issued' = Append(issued, NextDelete)
    /\ txStore' = store
    /\ ReturnFalse("no_changes", "delete")
    /\ UNCHANGED <<store, backup, fkPolicy, log, dry_run, log_data, store0,
                   overridden, committed>>

\* The manifest marked completed as soon as the loops end, before the
\* transaction block exits and commits.
CommitTransaction_StatusFirst ==
    /\ pc = "tx"
    /\ Len(issued) = Len(DeletePlan(log_data.records))
    /\ log' = [log_data EXCEPT !.status = "completed", !.stamped = TRUE]
    /\ store' = txStore
    /\ committed' = TRUE
    /\ pc' = "write"
    /\ UNCHANGED <<backup, fkPolicy, dry_run, log_data, store0, txStore,
                   issued, overridden, result, told, failure>>

\* Both loops are done: the transaction block exits and commits.
CommitTransaction ==
    /\ pc = "tx"
    /\ Len(issued) = Len(DeletePlan(log_data.records))
    /\ store' = txStore
    /\ committed' = TRUE
    /\ pc' = "write"
    /\ UNCHANGED <<backup, fkPolicy, log, dry_run, log_data, store0, txStore,
                   issued, overridden, result, told, failure>>

\* Success returned without the manifest having been rewritten.
UpdateLogStatus_NotWritten ==
    /\ pc = "write"
    /\ pc' = "done"
    /\ result' = "true"
    /\ told' = "success"
    /\ UNCHANGED <<store, backup, fkPolicy, log, dry_run, log_data, store0,
                   txStore, issued, overridden, committed, failure>>

\* _update_log_status rewrites the manifest, then rollback returns True.
UpdateLogStatus ==
    /\ pc = "write"
    /\ log' = [log_data EXCEPT !.status = "completed", !.stamped = TRUE]
    /\ pc' = "done"
    /\ result' = "true"
    /\ told' = "success"
    /\ UNCHANGED <<store, backup, fkPolicy, dry_run, log_data, store0, txStore,
                   issued, overridden, committed, failure>>

\* _update_log_status raises when the manifest cannot be opened for writing
\* (for example a read-only file); the same except clause reports failure.
UpdateLogStatusRaises ==
    /\ pc = "write"
    /\ ReturnFalse("no_changes", "write")
    /\ UNCHANGED <<store, backup, fkPolicy, log, dry_run, log_data, store0,
                   txStore, issued, overridden, committed>>

\* The command exits; the next command starts from the files and the store.
Exit ==
    /\ pc = "done"
    /\ pc' = "idle"
    /\ dry_run' = FALSE
    /\ log_data' = NoLog
    /\ store0' = {}
    /\ txStore' = {}
    /\ issued' = <<>>
    /\ overridden' = FALSE
    /\ committed' = FALSE
    /\ result' = "none"
    /\ told' = "none"
    /\ failure' = "none"
    /\ UNCHANGED <<store, backup, fkPolicy, log>>

Next ==
    \/ (\E n \in {"FIR128_Optimization_Demo", "OTHER"}, it \in 0..4 :
            LoggerByProject(n, it)) /\ UNCHANGED kbVars
    \/ (\E rows \in SeqsUpTo(ManifestRows, MaxLen) : OperatorManifest(rows))
            /\ UNCHANGED kbVars
    \/ (\E c \in {"yes", "no"} : RestoreBackup(c)) /\ UNCHANGED kbVars
    \/ (\E d \in BOOLEAN : Rollback(d)) /\ UNCHANGED kbVars
    \/ (\E resp \in Responses : AnswerOverride(resp)) /\ UNCHANGED kbVars
    \/ DryRunRollback /\ UNCHANGED kbVars
    \/ (\E resp \in Responses : AnswerProceed(resp)) /\ UNCHANGED kbVars
    \/ ExecuteDelete /\ UNCHANGED kbVars
    \/ ExecuteDeleteRaises /\ UNCHANGED kbVars
    \/ CommitTransaction /\ UNCHANGED kbVars
    \/ UpdateLogStatus /\ UNCHANGED kbVars
    \/ UpdateLogStatusRaises /\ UNCHANGED kbVars
    \/ Exit /\ UNCHANGED kbVars

Spec == Init /\ [][Next]_vars

(***************************************************************************)
(* Properties of the rollback tool.                                        *)
(***************************************************************************)

\* The rollback ran its deletion phase: the proceed prompt was confirmed.
Executed == ~dry_run /\ told \in {"success", "no_changes"}

ListedRows == {log_data.records[k].id : k \in 1..Len(log_data.records)}

\* C1: in an executed rollback every synthesis_results deletion is issued
\* before any design_iterations deletion and every design_iterations
\* deletion before any projects deletion, wherever the entries stand in the
\* manifest.
C1_ChildrenBeforeParents ==
    \A a, b \in 1..Len(issued) :
        a < b =>
            /\ ~(/\ issued[a].table = "design_iterations"
                 /\ issued[b].table = "synthesis_results")
            /\ ~(/\ issued[a].table = "projects"
                 /\ issued[b].table \in {"synthesis_results", "design_iterations"})

\* A manifest listing project, iteration, synthesis result in that order
\* has had its three deletions issued.
C1_Witness ==
    /\ log_data.records = <<EntryOf("p1"), EntryOf("i3"), EntryOf("s3")>>
    /\ issued = <<EntryOf("s3"), EntryOf("i3"), EntryOf("p1")>>

\* C2: when a deletion statement of a rollback raises, the store holds
\* exactly the rows it held before the call, nothing is left pending in the
\* transaction, and the manifest file is as it was (a pending manifest is
\* still pending).
C2_AllOrNothing ==
    (pc = "done" /\ failure = "delete") =>
        /\ store = store0
        /\ txStore = store0
        /\ log = log_data
        /\ (log_data.status = "pending" => log.status = "pending")

\* A deletion raised after an earlier deletion of the same rollback had
\* removed a row inside the transaction.
C2_Witness ==
    /\ pc = "done"
    /\ failure = "delete"
    /\ Len(issued) >= 2
    /\ issued[1].id \in store0
    /\ log.status = "pending"

\* C3: a dry-run rollback of any manifest, whatever its entries or status,
\* issues no deletion and leaves the store's content as it was before the
\* call.
C3_PreviewLeavesStore ==
    (pc # "idle" /\ dry_run) =>
        /\ store = store0
        /\ issued = <<>>
        /\ ~committed

\* A preview has been shown for a manifest that lists rows the store holds.
C3_Witness ==
    /\ pc = "done"
    /\ dry_run
    /\ result = "true"
    /\ DeletePlan(log_data.records) # <<>>
    /\ ListedRows \cap store # {}

\* C4: when the manifest has an entry whose table is not in the declared
\* rollback order, an execute ends in an error outcome: no row is deleted,
\* the manifest stays pending and success is not reported.
C4_UnknownTableIsFatal ==
    (/\ pc = "done"
     /\ Executed
     /\ log_data.status = "pending"
     /\ \E k \in 1..Len(log_data.records) :
            log_data.records[k].table \notin Range(ROLLBACK_ORDER)) =>
        /\ result = "false"
        /\ store = store0
        /\ log.status = "pending"

\* C5: a rollback of a completed manifest whose override prompt was not
\* answered affirmatively is refused: it returns failure, issues no
\* deletion and leaves the store and the manifest file unchanged.
C5_RefusedWithoutOverride ==
    (pc = "done" /\ log_data.status = "completed" /\ ~overridden) =>
        /\ result = "false"
        /\ issued = <<>>
        /\ store = store0
        /\ log = log_data

\* A completed manifest whose rows are in the store again was refused.
C5_Witness ==
    /\ pc = "done"
    /\ log_data.status = "completed"
    /\ ~overridden
    /\ told = "already_rolled_back"
    /\ ListedRows \cap store # {}

\* C6: re-executing a completed manifest with override, when every row it
\* lists is already absent, raises on no deletion: each statement is a
\* no-op, the store is unchanged, the manifest remains completed, and the
\* call returns success whenever the manifest file can be rewritten.
C6_ReExecuteAbsentRows ==
    (/\ pc \in {"tx", "write", "done"}
     /\ log_data.status = "completed"
     /\ overridden
     /\ ~dry_run
     /\ ListedRows \cap store0 = {}) =>
        /\ failure # "delete"
        /\ txStore = store0
        /\ store = store0
        /\ log.status = "completed"
        /\ (pc = "done" /\ failure = "none" /\ told # "cancelled"
                => result = "true")

\* An overridden re-execution issued its statements against absent rows
\* and returned success.
C6_Witness ==
    /\ pc = "done"
    /\ log_data.status = "completed"
    /\ overridden
    /\ ~dry_run
    /\ ListedRows \cap store0 = {}
    /\ Len(issued) >= 2
    /\ result = "true"

\* C7: whenever a non-dry-run rollback reports success the manifest file
\* already reads completed with a rollback timestamp, and the file is
\* rewritten only after the transaction committed: commit, then status
\* write, then the success report.
C7_StatusWrittenBeforeSuccess ==
    /\ (~dry_run /\ result = "true" =>
            /\ committed
            /\ log.status = "completed"
            /\ log.stamped)
    /\ (pc # "idle" /\ log # log_data => committed)
    /\ (pc \in {"tx", "write"} => result = "none")

\* A pending manifest was executed with effect and success was reported.
C7_Witness ==
    /\ pc = "done"
    /\ ~dry_run
    /\ result = "true"
    /\ log_data.status = "pending"
    /\ store # store0

\* C8: whenever a confirmed execution ends with the operator told that no
\* changes were made, the store equals its content before the call and a
\* pending manifest is still pending, at whichever point the failure arose.
C8_FailureMeansNoChanges ==
    (pc = "done" /\ told = "no_changes") =>
        /\ store = store0
        /\ (log_data.status = "pending" => log.status = "pending")

\* C9: the manifest status only moves forward.  A manifest is created
\* pending, becomes completed only in the status write that follows the
\* commit of an execute's transaction, and a completed manifest stays
\* completed under every step of the tool; no other step changes the status.
C9_StatusOneWay ==
    [][/\ (log.status = "absent" /\ log' # log => log'.status = "pending")
       /\ (log.status = "completed" => log'.status = "completed")
       /\ (log'.status # log.status /\ log.status # "absent" =>
               /\ pc = "write"
               /\ committed
               /\ log'.status = "completed")]_vars

\* An overridden re-execution of a completed manifest ended in failure or
\* cancellation with the manifest still completed.
C9_Witness ==
    /\ pc = "done"
    /\ log_data.status = "completed"
    /\ overridden
    /\ result = "false"
    /\ log.status = "completed"

\* C10: for a project with iterations 1, 2 and 3, the manifest generated
\* for iteration 3 lists exactly that iteration's design_iterations row and
\* its synthesis_results row, and executing it deletes exactly those two.
C10_IterationManifestExact ==
    /\ (/\ pc = "idle"
        /\ store = FullStore
        /\ log.project = "FIR128_Optimization_Demo"
        /\ log.iteration = 3
        /\ log.status = "pending") =>
            Range(log.records) = {EntryOf("i3"), EntryOf("s3")}
    /\ (/\ pc = "done"
        /\ store0 = FullStore
        /\ log_data.project = "FIR128_Optimization_Demo"
        /\ log_data.iteration = 3
        /\ result = "true"
        /\ ~dry_run) =>
            store = FullStore \ {"i3", "s3"}


(***************************************************************************)
(* Rule effectiveness statistics.                                          *)
(*                                                                         *)
(* avg_ii_improvement is kept as an exact fraction in lowest terms, so the *)
(* arithmetic of the four writers is computed as written, without the      *)
(* rounding of the float type.  Null is the SQL NULL of the column.        *)
(***************************************************************************)
MaxApplied == 2

Abs(x) == IF x < 0 THEN -x ELSE x

RECURSIVE GCD(_, _)
GCD(a, b) == IF b = 0 THEN a ELSE GCD(b, a % b)

Null == [num |-> 0, den |-> 0]

Frac(n, d) ==
    LET g == GCD(Abs(n), Abs(d))
        sgn == IF d < 0 THEN -1 ELSE 1
    IN  [num |-> (sgn * n) \div g, den |-> (sgn * d) \div g]

Num(i) == [num |-> i, den |-> 1]
Zero == Num(0)
OrZero(x) == IF x = Null THEN Zero ELSE x
Times(x, i) == Frac(x.num * i, x.den)
Plus(x, y) == Frac(x.num * y.den + y.num * x.den, x.den * y.den)
Over(x, i) == Frac(x.num, x.den * i)

Existing(e, rule_id, project_type) ==
    {row \in e : row.rule = rule_id /\ row.ptype = project_type}

\* uuid4(): an id no row of the table carries.
NewEffId(e) == Cardinality(e) + 1

InsertEffectiveness(e, rule_id, project_type, success_count, avg) ==
    e \cup {[id |-> NewEffId(e), rule |-> rule_id, ptype |-> project_type,
             times |-> 1, succ |-> success_count, avg |-> avg]}

\* Mean over every application instead of over the successful ones.
AccumulatedRow_OverTimes(existing, success, ii_improvement) ==
    LET new_times == existing.times + 1
        new_success == existing.succ + (IF success THEN 1 ELSE 0)
        new_total == Plus(Times(OrZero(existing.avg), existing.succ),
                          IF success THEN ii_improvement ELSE Zero)
    IN  [existing EXCEPT !.times = new_times, !.succ = new_success,
                         !.avg = Over(new_total, new_times)]

\* Counts every application as a success.
AccumulatedRow_AlwaysSuccess(existing, success, ii_improvement) ==
    [existing EXCEPT !.times = existing.times + 1, !.succ = existing.succ + 2,
                     !.avg = ii_improvement]

\* The accumulate arithmetic of the import job into the knowledge base.
AccumulatedRow(existing, success, ii_improvement) ==
    LET new_times == existing.times + 1
        new_success == existing.succ + (IF success THEN 1 ELSE 0)
        old_avg == OrZero(existing.avg)
        old_success == existing.succ
        old_total == Times(old_avg, old_success)
        new_total == Plus(old_total, IF success THEN ii_improvement ELSE Zero)
        new_avg == IF new_success > 0 THEN Over(new_total, new_success) ELSE Zero
    IN  [existing EXCEPT !.times = new_times, !.succ = new_success,
                         !.avg = new_avg]

\* record_rule_effectiveness of the knowledge-base import: accumulate.
RecordAccumulate(e, rule_id, project_type, success, ii_improvement) ==
    LET found == Existing(e, rule_id, project_type)
    IN  IF found # {}
        THEN LET existing == CHOOSE row \in found : TRUE
             IN  (e \ {existing})
                    \cup {AccumulatedRow(existing, success, ii_improvement)}
        ELSE InsertEffectiveness(e, rule_id, project_type,
                                 IF success THEN 1 ELSE 0,
                                 IF success THEN ii_improvement ELSE Zero)

\* Adds the new call to the stored counters instead of replacing them.
OverwrittenRow_Adds(existing, success, ii_improvement) ==
    [existing EXCEPT !.times = existing.times + 1,
                     !.succ = existing.succ + (IF success THEN 1 ELSE 0),
                     !.avg = IF success THEN ii_improvement ELSE Zero]

OverwrittenRow(existing, success, ii_improvement) ==
    [existing EXCEPT !.times = 1,
                     !.succ = IF success THEN 1 ELSE 0,
                     !.avg = IF success THEN ii_improvement ELSE Zero]

\* Inserts a second row for a pair that already has one.
RecordOverwrite_AlwaysInsert(e, rule_id, project_type, success, ii_improvement) ==
    InsertEffectiveness(e, rule_id, project_type,
                        IF success THEN 1 ELSE 0,
                        IF success THEN ii_improvement ELSE Zero)

\* record_rule_effectiveness of the examples import: overwrite.
RecordOverwrite(e, rule_id, project_type, success, ii_improvement) ==
    LET found == Existing(e, rule_id, project_type)
    IN  IF found # {}
        THEN LET existing == CHOOSE row \in found : TRUE
             IN  (e \ {existing})
                    \cup {OverwrittenRow(existing, success, ii_improvement)}
        ELSE InsertEffectiveness(e, rule_id, project_type,
                                 IF success THEN 1 ELSE 0,
                                 IF success THEN ii_improvement ELSE Zero)

\* Step 5 of record_complete_iteration for one matched rule.
RecordIterationEffectiveness(e, rule_id, project_type, rule_success, previous_ii, current_ii) ==
    LET ii_improvement == previous_ii - current_ii
        success == rule_success /\ ii_improvement > 0
        found == Existing(e, rule_id, project_type)
    IN  IF found # {}
        THEN LET existing == CHOOSE row \in found : TRUE
                 new_times == existing.times + 1
                 new_success == existing.succ + (IF success THEN 1 ELSE 0)
                 old_avg == OrZero(existing.avg)
                 old_total == Times(old_avg, existing.succ)
                 new_total == Plus(old_total,
                                   IF success THEN Num(ii_improvement) ELSE Zero)
                 new_avg == IF new_success > 0
                            THEN Over(new_total, new_success) ELSE Zero
             IN  (e \ {existing})
                    \cup {[existing EXCEPT !.times = new_times,
                                           !.succ = new_success,
                                           !.avg = new_avg]}
        ELSE InsertEffectiveness(e, rule_id, project_type,
                                 IF success THEN 1 ELSE 0,
                                 IF success THEN Num(ii_improvement) ELSE Zero)

\* The INSERT ... ON CONFLICT (rule_id, project_type) DO UPDATE of the
\* update_effectiveness endpoint; ii_improvement may be Null.
UpsertEffectiveness(e, rule_id, project_type, was_successful, ii_improvement) ==
    LET found == Existing(e, rule_id, project_type)
        flag == IF was_successful THEN 1 ELSE 0
    IN  IF found # {}
        THEN LET existing == CHOOSE row \in found : TRUE
             IN  (e \ {existing})
                    \cup {[existing EXCEPT
                            !.times = existing.times + 1,
                            !.succ = existing.succ + flag,
                            !.avg = IF ii_improvement # Null
                                    THEN Over(Plus(Times(OrZero(existing.avg),
                                                         existing.times),
                                                   ii_improvement),
                                              existing.times + 1)
                                    ELSE existing.avg]}
        ELSE InsertEffectiveness(e, rule_id, project_type, flag, ii_improvement)

(***************************************************************************)
(* The four writers of rules_effectiveness, called one after another on    *)
(* rules that exist.                                                       *)
(***************************************************************************)
AggPairs == {<<"u1", "fir">>, <<"u1", "fft">>}
Improvements == {0, 6, 130}
IIs == {128, 134}

Untracked == [n |-> 0, k |-> 0, sum |-> 0, pure |-> TRUE]

CanApply(rule_id, project_type) ==
    \A row \in Existing(eff, rule_id, project_type) : row.times < MaxApplied

Tracked(pair, success, ii_improvement) ==
    [track EXCEPT ![pair] = [n |-> @.n + 1,
                             k |-> @.k + (IF success THEN 1 ELSE 0),
                             sum |-> @.sum + (IF success THEN ii_improvement ELSE 0),
                             pure |-> @.pure]]

Untrack(pair) == [track EXCEPT ![pair] = [Untracked EXCEPT !.pure = FALSE]]

RowIds(rule_id, project_type) ==
    {row.id : row \in Existing(eff, rule_id, project_type)}

\* The history kept of a call: its name and pair, whether the pair had a row,
\* and for an overwrite the values it was given.
AggCall(op, pair, success, ii_improvement) ==
    /\ lastOp' = [op |-> op, rule |-> pair[1], ptype |-> pair[2],
                  success |-> success, imp |-> ii_improvement,
                  before |-> RowIds(pair[1], pair[2])]
    /\ prevOp' = lastOp.op
    /\ UNCHANGED <<rbVars, rules, projects, iters, synths, uniqueIter,
                   query, matched, extVars>>

\* The rollback tool at rest on the full data set.
RollbackIdle ==
    /\ store = FullStore
    /\ backup = store
    /\ fkPolicy = "restrict"
    /\ log = NoLog
    /\ pc = "idle"
    /\ dry_run = FALSE
    /\ log_data = NoLog
    /\ store0 = store
    /\ txStore = store
    /\ issued = <<>>
    /\ overridden = FALSE
    /\ committed = FALSE
    /\ result = "none"
    /\ told = "none"
    /\ failure = "none"

InitAgg ==
    /\ RollbackIdle
    /\ rules = {}
    /\ projects = {}
    /\ iters = <<>>
    /\ synths = {}
    /\ eff = {}
    /\ uniqueIter = FALSE
    /\ query = NoOp
    /\ matched = NoOp
    /\ lastOp = NoOp
    /\ prevOp = "none"
    /\ track = [pair \in AggPairs |-> Untracked]
    /\ ExtIdle

AccumulateCall(pair, success, ii_improvement) ==
    /\ CanApply(pair[1], pair[2])
    /\ eff' = RecordAccumulate(eff, pair[1], pair[2], success, Num(ii_improvement))
    /\ track' = Tracked(pair, success, ii_improvement)
    /\ AggCall("accumulate", pair, FALSE, Null)

IterationCall(pair, rule_success, previous_ii, current_ii) ==
    /\ CanApply(pair[1], pair[2])
    /\ eff' = RecordIterationEffectiveness(eff, pair[1], pair[2], rule_success,
                                           previous_ii, current_ii)
    /\ track' = Tracked(pair, rule_success /\ previous_ii - current_ii > 0,
                        previous_ii - current_ii)
    /\ AggCall("iteration", pair, FALSE, Null)

OverwriteCall(pair, success, ii_improvement) ==
    /\ eff' = RecordOverwrite(eff, pair[1], pair[2], success, Num(ii_improvement))
    /\ track' = Untrack(pair)
    /\ AggCall("overwrite", pair, success, Num(ii_improvement))

EndpointCall(pair, was_successful, ii_improvement) ==
    /\ CanApply(pair[1], pair[2])
    /\ eff' = UpsertEffectiveness(eff, pair[1], pair[2], was_successful,
                                  ii_improvement)
    /\ track' = Untrack(pair)
    /\ AggCall("endpoint", pair, FALSE, Null)

NextAgg ==
    \/ \E pair \in AggPairs, success \in BOOLEAN, imp \in Improvements :
            AccumulateCall(pair, success, imp)
    \/ \E pair \in AggPairs, success \in BOOLEAN, p \in IIs, c \in IIs :
            IterationCall(pair, success, p, c)
    \/ \E pair \in AggPairs, success \in BOOLEAN, imp \in Improvements :
            OverwriteCall(pair, success, imp)
    \/ \E pair \in AggPairs, success \in BOOLEAN,
          imp \in {Null, Num(6)} :
            EndpointCall(pair, success, imp)

SpecAgg == InitAgg /\ [][NextAgg]_vars

(***************************************************************************)
(* find_matching_rule of the two import jobs (the same code in both).      *)
(*                                                                         *)
(* hls_rules as the two ingestion jobs leave it: both look a rule code up  *)
(* before they insert, so a code is carried by one rule at most; the       *)
(* prompts job inserts and rewrites texts without looking at the texts     *)
(* already stored, so two rules may carry the same text.                   *)
(***************************************************************************)
P001Text == "Merge related operations into single loops"
P001Lower == "merge related operations into single loops"
P002Text == "Apply #pragma HLS PIPELINE II=1 rewind"
P002Lower == "apply #pragma hls pipeline ii=1 rewind"

RuleIds == {"u1", "u2", "u3"}
RuleCodes == {"P001", "P002"}
RuleTexts == {P001Text, P001Lower, P002Text}
Descriptions == {"", P001Text, P001Lower, P002Text, "merge"}

\* SQL LOWER() on the texts of the model.
Lower(t) ==
    CASE t = P001Text -> P001Lower
      [] t = P002Text -> P002Lower
      [] OTHER -> t

NoRule == [id |-> "none", code |-> "", text |-> ""]

RuleTables ==
    LET Table(f) == {[id |-> i, code |-> f[i][1], text |-> f[i][2]] : i \in DOMAIN f}
        All == UNION {{Table(f) : f \in [S -> (RuleCodes \cup {""}) \X RuleTexts]} :
                        S \in SUBSET RuleIds}
    IN  {rs \in All :
            \A r1 \in rs, r2 \in rs : (r1.code # "" /\ r1.code = r2.code) => r1 = r2}

\* LIKE '%keyword%' on the texts of the model.
Contains(t, keyword) ==
    \/ Lower(t) = Lower(keyword)
    \/ keyword = "merge" /\ Lower(t) = P001Lower

\* Falls back on the description as a keyword of the text.
FindMatchingRule_Keyword(rs, rule_code, description) ==
    LET byCode == {r \in rs : rule_code # "" /\ r.code = rule_code}
        byText == {r \in rs : description # "" /\ Contains(r.text, description)}
    IN  IF byCode # {} THEN byCode
        ELSE IF byText # {} THEN byText
        ELSE {NoRule}

\* Tries the description before the code.
FindMatchingRule_TextFirst(rs, rule_code, description) ==
    LET byCode == {r \in rs : rule_code # "" /\ r.code = rule_code}
        byText == {r \in rs : description # ""
                                /\ Lower(r.text) = Lower(description)}
    IN  IF byText # {} THEN byText
        ELSE IF byCode # {} THEN byCode
        ELSE {NoRule}

\* Gives up when a code is supplied and no rule carries it.
FindMatchingRule_CodeOnly(rs, rule_code, description) ==
    LET byCode == {r \in rs : rule_code # "" /\ r.code = rule_code}
        byText == {r \in rs : description # ""
                                /\ Lower(r.text) = Lower(description)}
    IN  IF byCode # {} THEN byCode
        ELSE IF rule_code # "" THEN {NoRule}
        ELSE IF byText # {} THEN byText
        ELSE {NoRule}

\* The rows find_matching_rule may return (LIMIT 1 without ORDER BY leaves the
\* choice among several matching rows to the database).  None and the empty
\* string are both "" here: the code tests the arguments for truth.
FindMatchingRule(rs, rule_code, description) ==
    LET byCode == {r \in rs : rule_code # "" /\ r.code = rule_code}
        byText == {r \in rs : description # ""
                                /\ Lower(r.text) = Lower(description)}
    IN  IF byCode # {} THEN byCode
        ELSE IF byText # {} THEN byText
        ELSE {NoRule}

InitMatch ==
    /\ RollbackIdle
    /\ rules \in RuleTables
    /\ projects = {}
    /\ iters = <<>>
    /\ synths = {}
    /\ eff = {}
    /\ uniqueIter = FALSE
    /\ query = NoOp
    /\ matched = NoOp
    /\ lastOp = NoOp
    /\ prevOp = "none"
    /\ track = <<>>
    /\ ExtIdle

FindCall(rule_code, description) ==
    /\ query' = [op |-> "find", code |-> rule_code, desc |-> description]
    /\ \E rule \in FindMatchingRule(rules, rule_code, description) :
            matched' = rule
    /\ UNCHANGED <<rbVars, rules, projects, iters, synths, eff, uniqueIter,
                   lastOp, prevOp, track, extVars>>

NextMatch ==
    \E rule_code \in RuleCodes \cup {"", "R001"}, description \in Descriptions :
        FindCall(rule_code, description)

SpecMatch == InitMatch /\ [][NextMatch]_vars

(***************************************************************************)
(* The operations that create design iterations: the two endpoints of the  *)
(* recording API and the two import jobs of the FIR128 data.               *)
(*                                                                         *)
(* A row id is the row's ordinal in its table: uuid4() never repeats and   *)
(* no operation here deletes.  The schema is not part of the sources, so   *)
(* whether it declares UNIQUE (project_id, iteration_number) is open:      *)
(* uniqueIter is chosen at the start and an INSERT that breaks it raises.  *)
(***************************************************************************)
MaxIters == 6

FirProject == [id |-> "fir128", name |-> "FIR128_Optimization_Demo"]
ProjectIds == {"fir128", "px"}
FirIterations == <<1, 2, 3>>

\* rules_applied of FIR128_DATA: iteration 2 and iteration 3.
FirRulesApplied ==
    <<[rule_code |-> "P001", rule_description |-> P001Text,
       previous_ii |-> 264, current_ii |-> 134, success |-> TRUE],
      [rule_code |-> "P002", rule_description |-> P002Text,
       previous_ii |-> 134, current_ii |-> 128, success |-> TRUE]>>

ImportRuleTables ==
    {{},
     {[id |-> "u1", code |-> "P001", text |-> P001Text],
      [id |-> "u2", code |-> "P002", text |-> P002Text]},
     {[id |-> "u1", code |-> "", text |-> P001Lower]}}

ProjectExists(ps, project_id) == \E pr \in ps : pr.id = project_id

\* COALESCE(MAX(iteration_number), 0) + 1
NextIterationNumber(its, project_id) ==
    LET nums == {its[i].num : i \in {j \in DOMAIN its : its[j].project = project_id}}
    IN  IF nums = {} THEN 1 ELSE (CHOOSE m \in nums : \A k \in nums : k <= m) + 1

IterationIds(its, project_id, iteration_number) ==
    {its[i].id : i \in {j \in DOMAIN its : /\ its[j].project = project_id
                                           /\ its[j].num = iteration_number}}

NewIteration(its, project_id, iteration_number) ==
    [id |-> Len(its) + 1, project |-> project_id, num |-> iteration_number]

InsertSynthesis(ss, iteration_id) ==
    ss \cup {[id |-> Cardinality(ss) + 1, iter |-> iteration_id]}

\* The row find_matching_rule returns: hls_rules is not written by these
\* operations, and the same query on the same table returns the same row.
FindOne(rs, rule_code, description) ==
    CHOOSE rule \in FindMatchingRule(rs, rule_code, description) : TRUE

\* What SELECT id ... WHERE project_id = $1 AND iteration_number = $2 may
\* return: 0 for no row, else the id of any matching row (the job rewrites
\* the rows it finds, so the row that comes first may differ between runs).
Lookup(its, iteration_number) ==
    IF IterationIds(its, FirProject.id, iteration_number) = {} THEN {0}
    ELSE IterationIds(its, FirProject.id, iteration_number)

\* Step 2 of the examples job: iteration n is looked up by (project_id,
\* iteration_number); pick[n] is the id the lookup returned, 0 for none.
RECURSIVE UpsertIterations(_, _, _, _)
UpsertIterations(its, ids, numbers, pick) ==
    IF numbers = <<>> THEN [its |-> its, ids |-> ids]
    ELSE LET n == Head(numbers)
         IN  IF pick[n] # 0
             THEN UpsertIterations(its, Append(ids, pick[n]), Tail(numbers), pick)
             ELSE UpsertIterations(Append(its, NewIteration(its, FirProject.id, n)),
                                   Append(ids, Len(its) + 1), Tail(numbers), pick)

\* Step 2 of the knowledge-base job: every iteration gets a fresh uuid4() and
\* is looked up by that id, which no row carries, so it is always inserted.
RECURSIVE InsertIterations(_, _, _, _)
InsertIterations(its, ids, numbers, unique) ==
    IF numbers = <<>> THEN [its |-> its, ids |-> ids, raised |-> FALSE]
    ELSE LET n == Head(numbers)
         IN  IF unique /\ IterationIds(its, FirProject.id, n) # {}
             THEN [its |-> its, ids |-> ids, raised |-> TRUE]
             ELSE InsertIterations(Append(its, NewIteration(its, FirProject.id, n)),
                                   Append(ids, Len(its) + 1), Tail(numbers), unique)

\* Step 3 of both jobs: a synthesis result is inserted for an iteration that
\* has none and updated in place otherwise.
RECURSIVE UpsertSynthesis(_, _)
UpsertSynthesis(ss, ids) ==
    IF ids = <<>> THEN ss
    ELSE IF \E sr \in ss : sr.iter = Head(ids)
         THEN UpsertSynthesis(ss, Tail(ids))
         ELSE UpsertSynthesis(InsertSynthesis(ss, Head(ids)), Tail(ids))

\* Step 4 of the knowledge-base job.
RECURSIVE RecordAppliedAccumulate(_, _, _)
RecordAppliedAccumulate(e, rs, applied) ==
    IF applied = <<>> THEN e
    ELSE LET rule_app == Head(applied)
             rule == FindOne(rs, rule_app.rule_code, rule_app.rule_description)
             ii_improvement == rule_app.previous_ii - rule_app.current_ii
             success == rule_app.success /\ ii_improvement > 0
         IN  IF rule = NoRule
             THEN RecordAppliedAccumulate(e, rs, Tail(applied))
             ELSE RecordAppliedAccumulate(
                    RecordAccumulate(e, rule.id, "fir", success,
                                     IF success THEN Num(ii_improvement) ELSE Zero),
                    rs, Tail(applied))

\* Step 4 of the examples job.
RECURSIVE RecordAppliedOverwrite(_, _, _)
RecordAppliedOverwrite(e, rs, applied) ==
    IF applied = <<>> THEN e
    ELSE LET rule_app == Head(applied)
             rule == FindOne(rs, rule_app.rule_code, rule_app.rule_description)
             ii_improvement == rule_app.previous_ii - rule_app.current_ii
             success == rule_app.success /\ ii_improvement > 0
         IN  IF rule = NoRule
             THEN RecordAppliedOverwrite(e, rs, Tail(applied))
             ELSE RecordAppliedOverwrite(
                    RecordOverwrite(e, rule.id, "fir", success,
                                    IF success THEN Num(ii_improvement) ELSE Zero),
                    rs, Tail(applied))

WithinBounds(its, e) ==
    /\ Len(its) <= MaxIters
    /\ \A row \in e : row.times <= MaxApplied

KbCall(op) ==
    /\ lastOp' = [op |-> op]
    /\ prevOp' = lastOp.op
    /\ UNCHANGED <<rbVars, rules, uniqueIter, query, matched, track, extVars>>

InitImport ==
    /\ RollbackIdle
    /\ rules \in ImportRuleTables
    /\ projects = {}
    /\ iters = <<>>
    /\ synths = {}
    /\ eff = {}
    /\ uniqueIter \in BOOLEAN
    /\ query = NoOp
    /\ matched = NoOp
    /\ lastOp = NoOp
    /\ prevOp = "none"
    /\ track = <<>>
    /\ ExtIdle

\* POST /api/design/start; the INSERT needs the project row.
StartDesignIteration(project_id) ==
    /\ ProjectExists(projects, project_id)
    /\ Len(iters) < MaxIters
    /\ iters' = Append(iters, NewIteration(iters, project_id,
                                           NextIterationNumber(iters, project_id)))
    /\ UNCHANGED <<projects, synths, eff>>
    /\ KbCall("start")

\* POST /api/design/complete_iteration with at most one rule application,
\* successful with II 134 -> 128, whose keywords matched `rule`.
RecordCompleteIteration(project_id, rule) ==
    LET e == IF rule = NoRule THEN eff
             ELSE RecordIterationEffectiveness(eff, rule.id, "fir", TRUE, 134, 128)
    IN  /\ Len(iters) < MaxIters
        /\ WithinBounds(iters, e)
        /\ projects' = IF ProjectExists(projects, project_id) THEN projects
                       ELSE projects \cup {[id |-> project_id, name |-> "FIR_Design"]}
        /\ iters' = Append(iters, NewIteration(iters, project_id,
                                               NextIterationNumber(iters, project_id)))
        /\ synths' = InsertSynthesis(synths, Len(iters) + 1)
        /\ eff' = e
        /\ KbCall("complete")

\* import_fir128_with_effectiveness of examples/fir128.
ImportExamples ==
    \E p1 \in Lookup(iters, 1), p2 \in Lookup(iters, 2), p3 \in Lookup(iters, 3) :
        /\ LET done == UpsertIterations(iters, <<>>, FirIterations, <<p1, p2, p3>>)
               e == RecordAppliedOverwrite(eff, rules, FirRulesApplied)
           IN  /\ WithinBounds(done.its, e)
               /\ projects' = {pr \in projects : pr.id # FirProject.id}
                                \cup {FirProject}
               /\ iters' = done.its
               /\ synths' = UpsertSynthesis(synths, done.ids)
               /\ eff' = e
        /\ KbCall("import_examples")

\* import_fir128_with_effectiveness of hls-knowledge-base; an exception ends
\* the job and leaves what the statements before it wrote.
ImportKnowledgeBase ==
    LET done == InsertIterations(iters, <<>>, FirIterations, uniqueIter)
        e == RecordAppliedAccumulate(eff, rules, FirRulesApplied)
    IN  /\ projects' = IF ProjectExists(projects, FirProject.id) THEN projects
                       ELSE projects \cup {FirProject}
        /\ iters' = done.its
        /\ IF done.raised
           THEN UNCHANGED <<synths, eff>>
           ELSE /\ WithinBounds(done.its, e)
                /\ synths' = UpsertSynthesis(synths, done.ids)
                /\ eff' = e
        /\ KbCall("import_kb")

NextImport ==
    \/ \E project_id \in ProjectIds : StartDesignIteration(project_id)
    \/ \E project_id \in ProjectIds, rule \in rules \cup {NoRule} :
            RecordCompleteIteration(project_id, rule)
    \/ ImportExamples
    \/ ImportKnowledgeBase

SpecImport == InitImport /\ [][NextImport]_vars

(***************************************************************************)
(* Properties of find_matching_rule, checked under SpecMatch.              *)
(***************************************************************************)

\* C13: a call with the code of a rule R returns R whatever the description
\* is, also when the description is the full text of another rule.
C13_CodeMatchWins ==
    query.op = "find" =>
        \A R \in rules : (R.code # "" /\ query.code = R.code) => matched = R

C13_Witness ==
    /\ query.op = "find"
    /\ \E R \in rules, other \in rules :
            /\ R.code # "" /\ query.code = R.code
            /\ other.id # R.id
            /\ Lower(other.text) # Lower(R.text)
            /\ query.desc = other.text
            /\ matched = R

\* C14: with no code, a description that equals some rule's full text up to
\* case returns such a rule, and every other description returns no match,
\* a keyword or part of a rule's text included.
C14_TextMatchIsWholeText ==
    (query.op = "find" /\ query.code = "") =>
        IF \E r \in rules : Lower(r.text) = Lower(query.desc)
        THEN matched \in rules /\ Lower(matched.text) = Lower(query.desc)
        ELSE matched = NoRule

\* The description differs from the stored text in case only.
C14_Witness ==
    /\ query.op = "find" /\ query.code = ""
    /\ query.desc = P001Lower
    /\ matched \in rules
    /\ matched.text = P001Text

(***************************************************************************)
(* Properties of the effectiveness statistics, checked under SpecAgg.      *)
(***************************************************************************)

\* C11: accumulate mode applied N times to a fresh (rule, project type) pair
\* leaves one row with times_applied = N, success_count = the number of
\* successful applications and avg_ii_improvement = the mean improvement of
\* the successful ones, 0 when there is none.
C11_AccumulateIsMean ==
    \A pair \in AggPairs :
        LET t == track[pair]
            found == Existing(eff, pair[1], pair[2])
        IN  (t.pure /\ t.n > 0) =>
                \E row \in found :
                    /\ found = {row}
                    /\ row.times = t.n
                    /\ row.succ = t.k
                    /\ row.avg = IF t.k = 0 THEN Zero ELSE Frac(t.sum, t.k)

\* Improvements 130 then 6, both successful: (2, 2, 68).
C11_Witness ==
    \E pair \in AggPairs :
        /\ track[pair] = [n |-> 2, k |-> 2, sum |-> 136, pure |-> TRUE]
        /\ lastOp.op \in {"accumulate", "iteration"}
        /\ \E row \in Existing(eff, pair[1], pair[2]) :
                row.times = 2 /\ row.succ = 2 /\ row.avg = Num(68)

\* C12: after an overwrite-mode call the pair has exactly one row, equal to
\* that call's singleton outcome whatever the row held before, and a row
\* that existed before the call keeps its id.
C12_OverwriteKeepsLastCall ==
    lastOp.op = "overwrite" =>
        LET found == Existing(eff, lastOp.rule, lastOp.ptype)
        IN  \E row \in found :
                /\ found = {row}
                /\ row.times = 1
                /\ row.succ = (IF lastOp.success THEN 1 ELSE 0)
                /\ row.avg = (IF lastOp.success THEN lastOp.imp ELSE Zero)
                /\ lastOp.before # {} => lastOp.before = {row.id}

\* Two overwrite calls in a row on the only pair that has a row.
C12_Witness ==
    /\ lastOp.op = "overwrite"
    /\ prevOp = "overwrite"
    /\ lastOp.before # {}
    /\ Cardinality(eff) = 1
    /\ lastOp.success
    /\ lastOp.imp = Num(6)

\* C17: every rules_effectiveness row has success_count <= times_applied.
C17_SuccessAtMostApplied ==
    \A row \in eff : row.succ <= row.times

C17_Witness ==
    \E row \in eff : row.times = MaxApplied /\ row.succ = MaxApplied

\* C18: every rules_effectiveness row with success_count = 0 has an
\* avg_ii_improvement of 0 (NULL counted as 0).
C18_NoSuccessMeansZeroAvg ==
    \A row \in eff : row.succ = 0 => OrZero(row.avg) = Zero

\* C19: at most one rules_effectiveness row per (rule, project type); the
\* first application creates the row and every later one updates that row.
C19_OneRowPerPair ==
    /\ \A r1 \in eff, r2 \in eff :
            (r1.rule = r2.rule /\ r1.ptype = r2.ptype) => r1 = r2
    /\ lastOp.op \in {"accumulate", "iteration", "overwrite", "endpoint"} =>
            /\ Existing(eff, lastOp.rule, lastOp.ptype) # {}
            /\ lastOp.before # {} => RowIds(lastOp.rule, lastOp.ptype) = lastOp.before

C19_Witness ==
    /\ Cardinality(eff) = 2
    /\ lastOp.op = "endpoint"
    /\ lastOp.before # {}
    /\ \E row \in eff : row.times = MaxApplied

(***************************************************************************)
(* Properties of the import jobs and of iteration numbering, checked under *)
(* SpecImport.                                                             *)
(***************************************************************************)

\* C15: a run of the examples import job that directly follows another run
\* of it changes no table: the same projects, design_iterations,
\* synthesis_results and rules_effectiveness rows with the same ids, and
\* the same (times_applied, success_count, avg_ii_improvement) in each.
C15_ExamplesImportIdempotent ==
    [][(lastOp.op = "import_examples" /\ lastOp'.op = "import_examples") =>
            /\ projects' = projects
            /\ iters' = iters
            /\ synths' = synths
            /\ eff' = eff]_vars

\* Two runs in a row on a store that holds the three iterations and both rows.
C15_Witness ==
    /\ prevOp = "import_examples"
    /\ lastOp.op = "import_examples"
    /\ Len(iters) >= 3
    /\ Cardinality(eff) = 2

\* C16: a run of the knowledge-base import job that directly follows another
\* run of it creates no design_iterations or synthesis_results row and raises
\* no row's times_applied or success_count.
C16_KnowledgeBaseImportIdempotent ==
    [][(lastOp.op = "import_kb" /\ lastOp'.op = "import_kb") =>
            /\ Len(iters') = Len(iters)
            /\ Cardinality(synths') = Cardinality(synths)
            /\ \A after \in eff' : \E row \in eff :
                    /\ row.id = after.id
                    /\ after.times <= row.times
                    /\ after.succ <= row.succ]_vars

\* C20: within a project no two design_iterations rows carry the same
\* iteration_number and a row inserted later carries a larger number than
\* every row inserted before it.
C20_IterationNumbersIncrease ==
    \A i \in DOMAIN iters, j \in DOMAIN iters :
        (i < j /\ iters[i].project = iters[j].project) =>
            iters[i].num < iters[j].num

(***************************************************************************)
(* The confirmation prompts: manifest creation in a logs/ directory that   *)
(* keeps its files, and rollback invocations with the answers given.       *)
(***************************************************************************)

\* Manifest files kept in logs/.
MaxLogs == 3

\* What a manifest's file name tells: rollback_{project}[_iter{n}]_{ts}.yaml
\* (iteration 0: no iteration given).  Runs fall in different seconds, so
\* the timestamps differ and every file written is a further file.
LogLabel(project_name, iteration) ==
    [project |-> project_name, iteration |-> iteration]

\* _check_duplicate_log: glob rollback_{name}_iter{n}_*.yaml with an
\* iteration, rollback_{name}_*.yaml without one.
CheckDuplicateLog(files, project_name, iteration) ==
    IF iteration # 0
    THEN \E k \in DOMAIN files : files[k] = LogLabel(project_name, iteration)
    ELSE \E k \in DOMAIN files : files[k].project = project_name

\* The glob of _generate_log_file, rollback_{name}_iter{iteration}_*.yaml:
\* without an iteration the pattern reads "iterNone" and no file matches.
ExistingLogs(files, project_name, iteration) ==
    {k \in DOMAIN files :
        iteration # 0 /\ files[k] = LogLabel(project_name, iteration)}

promptRest == <<rules, projects, iters, synths, eff, uniqueIter, query,
                matched, track, deleted, uniqueKeys, calls>>

\* logger --project NAME [--iteration N] [--force] in a logs/ directory that
\* keeps its files: logger_by_project collects the records and
\* _generate_log_file warns of an existing manifest, asks "Create new log
\* anyway? [y/N]" unless forced, and writes the file.
GenerateLogFile(project_name, iteration, force, resp) ==
    /\ pc = "idle"
    /\ Len(logs) < MaxLogs
    /\ LET project_id == FindProject(store, project_name)
           found == /\ project_id # ""
                    /\ FindIterations(store, project_id, iteration) # <<>>
           warned == /\ found
                     /\ CheckDuplicateLog(logs, project_name, iteration)
                     /\ ExistingLogs(logs, project_name, iteration) # {}
           asked == warned /\ ~force
       IN /\ IF found /\ (asked => Affirmative(resp))
             THEN /\ logs' = Append(logs, LogLabel(project_name, iteration))
                  /\ log' = NewLog(project_name, iteration,
                                   LoggerRecords(store, project_id, iteration))
             ELSE UNCHANGED <<logs, log>>
          /\ lastOp' = [op |-> "generate", force |-> force, warned |-> warned,
                        asked |-> asked,
                        resp |-> IF asked THEN resp ELSE "unasked",
                        files |-> Len(logs)]
    /\ prevOp' = lastOp.op
    /\ UNCHANGED <<store, backup, fkPolicy, pc, callVars, answers, promptRest>>

promptKb == <<rules, projects, iters, synths, eff, uniqueIter, query,
              matched, lastOp, prevOp, track, logs, deleted, uniqueKeys,
              calls>>

\* rollback LOG [--dry-run]: a new invocation, nothing answered yet.
InvokeRollback(d) ==
    /\ Rollback(d)
    /\ answers' = Unasked
    /\ UNCHANGED promptKb

\* The answer typed at "Continue anyway? [y/N]".
PromptOverride(resp) ==
    /\ AnswerOverride(resp)
    /\ answers' = [answers EXCEPT !.override = resp]
    /\ UNCHANGED promptKb

\* The answer typed at "Proceed with rollback? [y/N]".
PromptProceed(resp) ==
    /\ AnswerProceed(resp)
    /\ answers' = [answers EXCEPT !.proceed = resp]
    /\ UNCHANGED promptKb

InitPrompt ==
    /\ RollbackIdle
    /\ KbIdle

NextPrompt ==
    \/ \E iteration \in {0, 3}, force \in BOOLEAN, resp \in Responses :
            GenerateLogFile("FIR128_Optimization_Demo", iteration, force, resp)
    \/ RestoreBackup("yes") /\ UNCHANGED kbVars
    \/ \E d \in BOOLEAN : InvokeRollback(d)
    \/ \E resp \in Responses : PromptOverride(resp)
    \/ DryRunRollback /\ UNCHANGED kbVars
    \/ \E resp \in Responses : PromptProceed(resp)
    \/ ExecuteDelete /\ UNCHANGED kbVars
    \/ ExecuteDeleteRaises /\ UNCHANGED kbVars
    \/ CommitTransaction /\ UNCHANGED kbVars
    \/ UpdateLogStatus /\ UNCHANGED kbVars
    \/ UpdateLogStatusRaises /\ UNCHANGED kbVars
    \/ Exit /\ UNCHANGED kbVars

SpecPrompt == InitPrompt /\ [][NextPrompt]_vars

\* C23: a rollback invocation has issued deletions only if the proceed
\* prompt of that invocation was answered y or yes, and on a completed
\* manifest only if the override prompt was answered y or yes as well; after
\* any other answer at either prompt the invocation has ended with no
\* deletion issued, the store and the manifest as they were and failure
\* returned; and a manifest generation whose prompt got any other answer has
\* written no file.
C23_DeletionsNeedAffirmativeAnswers ==
    /\ issued # <<>> => StripLower(answers.proceed) \in {"y", "yes"}
    /\ (issued # <<>> /\ log_data.status = "completed") =>
            StripLower(answers.override) \in {"y", "yes"}
    /\ \A prompt \in {"override", "proceed"} :
            (/\ pc # "idle"
             /\ answers[prompt] # "unasked"
             /\ StripLower(answers[prompt]) \notin {"y", "yes"}) =>
                /\ pc = "done"
                /\ result = "false"
                /\ issued = <<>>
                /\ store = store0
                /\ log = log_data
    /\ (/\ lastOp.op = "generate"
        /\ lastOp.asked
        /\ StripLower(lastOp.resp) \notin {"y", "yes"}) =>
            Len(logs) = lastOp.files

\* A completed manifest rolled back again after both prompts were answered
\* in the affirmative.
C23_Witness ==
    /\ log_data.status = "completed"
    /\ issued # <<>>
    /\ answers.override # "unasked"
    /\ answers.proceed # "unasked"

\* C24: a manifest file written while a file with the same project name and
\* the same iteration number (or, like it, none) already existed was written
\* after a warning and either under the force flag or after an affirmative
\* answer to the prompt.
C24_NoSilentDuplicate ==
    (/\ lastOp.op = "generate"
     /\ Len(logs) > lastOp.files
     /\ \E k \in 1..lastOp.files : logs[k] = logs[Len(logs)]) =>
        /\ lastOp.warned
        /\ \/ lastOp.force
           \/ lastOp.asked /\ StripLower(lastOp.resp) \in {"y", "yes"}

(***************************************************************************)
(* The API endpoints of main.py on a knowledge base whose rows can also be *)
(* deleted by a rollback.                                                  *)
(***************************************************************************)

\* Rows of projects, design_iterations and synthesis_results ever created.
MaxRows == 5

\* uuid4() values of create_project, in the order they are drawn.
GenIds == <<"g1", "g2">>

\* Project ids a client supplies to /api/design/complete_iteration.
ClientIds == {"px"}

\* A deleted row.  Of a deleted iteration the id (its creation stamp), the
\* project and the number are kept; of the other tables, how many rows were
\* deleted (for projects: with a generated id, "gen", or a client's).
Tomb(table, id, project, num) ==
    [table |-> table, id |-> id, project |-> project, num |-> num]

TombCount(table) == Cardinality({d \in deleted : d.table = table})

\* created_at of the next row: rows are stamped in the order of creation.
Stamp ==
    Cardinality(projects) + Len(iters) + Cardinality(synths)
        + Cardinality({d \in deleted : d.table # "rules_effectiveness"}) + 1

\* uuid4() of create_project.
Generated ==
    Cardinality({pr \in projects : pr.id \in Range(GenIds)})
        + Cardinality({d \in deleted : d.table = "projects" /\ d.project = "gen"})

\* uuid4() for a rules_effectiveness row: the row the writer inserted gets
\* an id no row has carried.
FreshEffId(before, after) ==
    {IF Existing(before, row.rule, row.ptype) = {}
     THEN [row EXCEPT !.id = Cardinality(before) + TombCount("rules_effectiveness") + 1]
     ELSE row : row \in after}

NameTaken(name) ==
    "projects.name" \in uniqueKeys /\ \E pr \in projects : pr.name = name

IterRange(its) == {its[k] : k \in DOMAIN its}

ApiRest == <<rbVars, rules, uniqueIter, query, matched, track, logs, answers,
             uniqueKeys, calls>>

\* POST /api/projects: a plain INSERT under a fresh id.
CreateProject(name) ==
    /\ Stamp <= MaxRows
    /\ Generated < Len(GenIds)
    /\ IF NameTaken(name)
       THEN /\ UNCHANGED projects
            /\ lastOp' = [op |-> "create_project", raised |-> TRUE]
       ELSE /\ projects' = projects \cup
                    {[id |-> GenIds[Generated + 1], name |-> name, at |-> Stamp]}
            /\ lastOp' = [op |-> "create_project", raised |-> FALSE]
    /\ prevOp' = lastOp.op
    /\ UNCHANGED <<iters, synths, eff, deleted, ApiRest>>

\* POST /api/design/start; the INSERT raises for a project that is not there.
ApiStartDesignIteration(project_id) ==
    /\ Stamp <= MaxRows
    /\ IF ProjectExists(projects, project_id)
       THEN iters' = Append(iters, [id |-> Stamp, project |-> project_id,
                                    num |-> NextIterationNumber(iters, project_id)])
       ELSE UNCHANGED iters
    /\ lastOp' = [op |-> "start"]
    /\ prevOp' = lastOp.op
    /\ UNCHANGED <<projects, synths, eff, deleted, ApiRest>>

\* POST /api/design/{iteration_id}/synthesis_result: a plain INSERT; it
\* raises for an iteration that is not there and, where the schema declares
\* iteration_id unique, for an iteration that has a result.
RecordSynthesisResult(iteration_id, ii_achieved) ==
    /\ Stamp <= MaxRows
    /\ IF /\ \E it \in IterRange(iters) : it.id = iteration_id
          /\ ~(/\ "synthesis_results.iteration_id" \in uniqueKeys
               /\ \E s \in synths : s.iter = iteration_id)
       THEN synths' = synths \cup
                {[id |-> Stamp, iter |-> iteration_id, ii |-> ii_achieved]}
       ELSE UNCHANGED synths
    /\ lastOp' = [op |-> "synthesis", iter |-> iteration_id, ii |-> ii_achieved]
    /\ prevOp' = lastOp.op
    /\ UNCHANGED <<projects, iters, eff, deleted, ApiRest>>

\* The lookup of update_rule_effectiveness that also accepts the text as a
\* keyword of a rule's text.
EndpointRule_Keyword(rs, rule_code, rule_text) ==
    LET byCode == {r \in rs : rule_code # "" /\ r.code = rule_code}
        byText == {r \in rs : rule_text # "" /\ r.text = rule_text}
        byWord == {r \in rs : rule_text # "" /\ Contains(r.text, rule_text)}
    IN  IF byCode # {} THEN byCode
        ELSE IF byText # {} THEN byText
        ELSE IF byWord # {} THEN byWord
        ELSE {NoRule}

\* The lookup of update_rule_effectiveness: WHERE rule_code = $1, then
\* WHERE rule_text = $1.
EndpointRule(rs, rule_code, rule_text) ==
    LET byCode == {r \in rs : rule_code # "" /\ r.code = rule_code}
        byText == {r \in rs : rule_text # "" /\ r.text = rule_text}
    IN  IF byCode # {} THEN byCode
        ELSE IF byText # {} THEN byText
        ELSE {NoRule}

\* POST /api/rules/update_effectiveness; 404 when no rule is found.
UpdateRuleEffectiveness(rule_code, rule_text, was_successful, ii_improvement) ==
    /\ \E rule \in EndpointRule(rules, rule_code, rule_text) :
            LET e == IF rule = NoRule THEN eff
                     ELSE FreshEffId(eff, UpsertEffectiveness(eff, rule.id, "fir",
                                            was_successful, ii_improvement))
            IN  /\ \A row \in e : row.times <= MaxApplied
                /\ eff' = e
    /\ lastOp' = [op |-> "endpoint", code |-> rule_code, text |-> rule_text,
                  success |-> was_successful, imp |-> ii_improvement,
                  effBefore |-> eff]
    /\ prevOp' = lastOp.op
    /\ UNCHANGED <<projects, iters, synths, deleted, ApiRest>>

\* Step 5 of record_complete_iteration: the first keyword that some rule's
\* text contains selects the rule.
RECURSIVE KeywordRule(_, _)
KeywordRule(rs, rule_keywords) ==
    IF rule_keywords = <<>> THEN {NoRule}
    ELSE LET hits == {r \in rs : Contains(r.text, Head(rule_keywords))}
         IN  IF hits # {} THEN hits ELSE KeywordRule(rs, Tail(rule_keywords))

\* POST /api/design/complete_iteration with one rule application: project,
\* iteration, synthesis result and effectiveness in one transaction, which
\* an INSERT that raises rolls back.
ApiRecordCompleteIteration(project_id, project_name, rule_keywords, success, previous_ii, current_ii) ==
    LET exists == ProjectExists(projects, project_id)
        name == IF project_name = "" THEN "FIR_Design" ELSE project_name
        rows == IF exists THEN 2 ELSE 3
        at == IF exists THEN Stamp ELSE Stamp + 1
    IN  /\ Stamp + rows - 1 <= MaxRows
        /\ \E rule \in KeywordRule(rules, rule_keywords) :
            LET e == IF rule = NoRule THEN eff
                     ELSE FreshEffId(eff, RecordIterationEffectiveness(eff, rule.id,
                                            "fir", success, previous_ii, current_ii))
            IN  /\ \A row \in e : row.times <= MaxApplied
                /\ IF ~exists /\ NameTaken(name)
                   THEN UNCHANGED <<projects, iters, synths, eff>>
                   ELSE /\ projects' = IF exists THEN projects
                                       ELSE projects \cup {[id |-> project_id,
                                                name |-> name, at |-> Stamp]}
                        /\ iters' = Append(iters, [id |-> at, project |-> project_id,
                                        num |-> NextIterationNumber(iters, project_id)])
                        /\ synths' = synths \cup
                                {[id |-> at + 1, iter |-> at, ii |-> current_ii]}
                        /\ eff' = e
        /\ lastOp' = [op |-> "complete", keywords |-> rule_keywords,
                      success |-> success, imp |-> Num(previous_ii - current_ii),
                      effBefore |-> eff]
        /\ prevOp' = lastOp.op
        /\ UNCHANGED <<deleted, ApiRest>>

\* The records of a manifest, by table.
Manifest(ps, its, ss, es) == [projects |-> ps, iters |-> its, synths |-> ss, eff |-> es]

\* _execute_rollback on the knowledge base: the listed rows are deleted in
\* ROLLBACK_ORDER (synthesis_results, rules_effectiveness,
\* design_iterations, projects) in one transaction; a DELETE of a row that
\* is still referenced raises under ON DELETE RESTRICT and takes the
\* referencing rows along under ON DELETE CASCADE.
RollbackResult(m) ==
    LET s1 == {s \in synths : s.id \notin m.synths}
        e1 == eff \ m.eff
        KeepIter(it) == it.id \notin m.iters
        its1 == SelectSeq(iters, KeepIter)
        orphans1 == {s \in s1 : s.iter \in m.iters}
        KeepOwned(it) == it.project \notin m.projects
        its2 == SelectSeq(its1, KeepOwned)
        s2 == {s \in s1 \ orphans1 : \E it \in IterRange(its2) : it.id = s.iter}
        raised == /\ fkPolicy = "restrict"
                  /\ \/ orphans1 # {}
                     \/ its2 # its1
    IN  IF raised
        THEN [ok |-> FALSE, ps |-> projects, its |-> iters, ss |-> synths, e |-> eff]
        ELSE [ok |-> TRUE, ps |-> {pr \in projects : pr.id \notin m.projects},
              its |-> its2, ss |-> s2, e |-> e1]

\* The rows a rollback took out of the tables.
Tombs(res) ==
    LET Counted(table, kind, gone) ==
            {Tomb(table, k, kind, 0) : k \in 1..Cardinality(gone)
                + Cardinality({d \in deleted : d.table = table /\ d.project = kind})}
        gone == projects \ res.ps
    IN  Counted("projects", "gen", {pr \in gone : pr.id \in Range(GenIds)})
        \cup Counted("projects", "client", {pr \in gone : pr.id \in ClientIds})
        \cup {Tomb("design_iterations", it.id, it.project, it.num) :
                it \in IterRange(iters) \ IterRange(res.its)}
        \cup Counted("synthesis_results", "", synths \ res.ss)
        \cup Counted("rules_effectiveness", "", eff \ res.e)

ExecuteManifest(m) ==
    LET res == RollbackResult(m)
    IN  /\ projects' = res.ps
        /\ iters' = res.its
        /\ synths' = res.ss
        /\ eff' = res.e
        /\ deleted' = deleted \cup Tombs(res)
        /\ lastOp' = [op |-> "rollback", ok |-> res.ok]
        /\ prevOp' = lastOp.op
        /\ UNCHANGED ApiRest

\* logger --project NAME [--iteration N], then rollback of the manifest,
\* confirmed: the newest project of that name, the iteration of that number
\* (every iteration without one), their synthesis results and every
\* rules_effectiveness row of the project's type.
RollbackProject(project_name, iteration) ==
    \E pr \in projects :
        /\ pr.name = project_name
        /\ \A other \in projects : other.name = project_name => other.at <= pr.at
        /\ LET its == {it \in IterRange(iters) :
                            /\ it.project = pr.id
                            /\ (iteration # 0 => it.num = iteration)}
               ids == {it.id : it \in its}
           IN  /\ its # {}
               /\ ExecuteManifest(Manifest({pr.id}, ids,
                                           {s.id : s \in {x \in synths : x.iter \in ids}},
                                           eff))

\* logger --recent HOURS, then rollback of the manifest, confirmed: the rows
\* of projects, design_iterations and synthesis_results created after the
\* cutoff and the rules_effectiveness rows last applied after it.
RollbackRecent(cutoff, recent_eff) ==
    LET m == Manifest({pr.id : pr \in {x \in projects : x.at > cutoff}},
                      {it.id : it \in {x \in IterRange(iters) : x.id > cutoff}},
                      {s.id : s \in {x \in synths : x.id > cutoff}},
                      recent_eff)
    IN  /\ m.projects # {} \/ m.iters # {} \/ m.synths # {} \/ m.eff # {}
        /\ ExecuteManifest(m)

\* hls_rules as import_hls_rules leaves it: P001 and P002.
Catalogue ==
    {[id |-> "u1", code |-> "P001", text |-> P001Text],
     [id |-> "u2", code |-> "P002", text |-> P002Text]}

InitApi ==
    /\ store = FullStore
    /\ backup = store
    /\ fkPolicy \in {"restrict", "cascade"}
    /\ log = NoLog
    /\ pc = "idle"
    /\ dry_run = FALSE
    /\ log_data = NoLog
    /\ store0 = store
    /\ txStore = store
    /\ issued = <<>>
    /\ overridden = FALSE
    /\ committed = FALSE
    /\ result = "none"
    /\ told = "none"
    /\ failure = "none"
    /\ rules = Catalogue
    /\ projects = {}
    /\ iters = <<>>
    /\ synths = {}
    /\ eff = {}
    /\ uniqueIter = FALSE
    /\ query = NoOp
    /\ matched = NoOp
    /\ lastOp = NoOp
    /\ prevOp = "none"
    /\ track = <<>>
    /\ logs = <<>>
    /\ answers = Unasked
    /\ deleted = {}
    /\ uniqueKeys \in SUBSET {"projects.name", "synthesis_results.iteration_id"}
    /\ calls = <<>>

NextApi ==
    \/ \E name \in {"FIR_Design", "B"} : CreateProject(name)
    \/ \E project_id \in ClientIds \cup Range(GenIds) : ApiStartDesignIteration(project_id)
    \/ \E iteration_id \in {it.id : it \in IterRange(iters)} \cup {0} :
            RecordSynthesisResult(iteration_id, 134)
    \/ \E project_id \in ClientIds :
            ApiRecordCompleteIteration(project_id, "", <<"merge">>, TRUE, 134, 128)
    \/ \E project_name \in {"FIR_Design", "B"}, iteration \in 0..2 :
            RollbackProject(project_name, iteration)
    \/ \E cutoff \in 0..MaxRows, recent_eff \in SUBSET eff :
            RollbackRecent(cutoff, recent_eff)

SpecApi == InitApi /\ [][NextApi]_vars

\* The two recording endpoints on one client project.
InitRecord ==
    /\ InitApi
    /\ fkPolicy = "restrict"
    /\ uniqueKeys = {}

NextRecord ==
    \/ \E rule_code \in {"", "P001", "P999"}, rule_text \in {"", P001Text, "merge"},
          was_successful \in BOOLEAN, ii_improvement \in {Null, Num(6), Num(0), Num(-6)} :
            UpdateRuleEffectiveness(rule_code, rule_text, was_successful, ii_improvement)
    \/ \E rule_keywords \in {<<"merge">>, <<"unroll">>, <<"unroll", "merge">>},
          success \in BOOLEAN, ii \in {<<134, 128>>, <<128, 128>>, <<128, 134>>} :
            ApiRecordCompleteIteration("px", "", rule_keywords, success, ii[1], ii[2])

SpecRecord == InitRecord /\ [][NextRecord]_vars

(***************************************************************************)
(* Properties of the API endpoints, checked under SpecApi and SpecRecord.  *)
(***************************************************************************)

\* C21: an iteration of a project never carries the number of an iteration
\* of the same project that was created before it, whether that earlier
\* iteration is still there or has been deleted.
C21_NumberNeverReused ==
    LET ever == IterRange(iters) \cup
                    {[id |-> d.id, project |-> d.project, num |-> d.num] :
                        d \in {x \in deleted : x.table = "design_iterations"}}
    IN  \A a \in ever, b \in ever :
            (a.project = b.project /\ a.id < b.id) => a.num # b.num

\* C22: no design iteration has two synthesis_results rows, and after a
\* result was recorded for an existing iteration, that iteration's row
\* carries the recorded result.
C22_OneSynthesisPerIteration ==
    /\ \A s1 \in synths, s2 \in synths : s1.iter = s2.iter => s1 = s2
    /\ (/\ lastOp.op = "synthesis"
        /\ \E it \in IterRange(iters) : it.id = lastOp.iter) =>
            {s.ii : s \in {x \in synths : x.iter = lastOp.iter}} = {lastOp.ii}

\* C29: no two projects rows share the name or the id.
C29_NoDuplicateProject ==
    \A p1 \in projects, p2 \in projects :
        (p1.name = p2.name \/ p1.id = p2.id) => p1 = p2

\* success_count of the row of (rule, project type), 0 without a row.
SuccessCount(e, rule_id, project_type) ==
    IF Existing(e, rule_id, project_type) = {} THEN 0
    ELSE (CHOOSE row \in Existing(e, rule_id, project_type) : TRUE).succ

\* C25: an endpoint call that raised a row's success_count, or created a row
\* with success_count 1, carried an improvement (previous - current)
\* greater than zero.
C25_SuccessNeedsImprovement ==
    lastOp.op \in {"endpoint", "complete"} =>
        \A row \in eff :
            row.succ > SuccessCount(lastOp.effBefore, row.rule, row.ptype) =>
                lastOp.imp # Null /\ lastOp.imp.num > 0

\* The last call named no rule of the table: no rule with the code or with
\* exactly the text given to update_rule_effectiveness, no rule whose text
\* contains a keyword given to record_complete_iteration.
NoMatch ==
    \/ /\ lastOp.op = "endpoint"
       /\ ~\E r \in rules : \/ lastOp.code # "" /\ r.code = lastOp.code
                            \/ lastOp.text # "" /\ r.text = lastOp.text
    \/ /\ lastOp.op = "complete"
       /\ ~\E r \in rules, k \in DOMAIN lastOp.keywords :
                Contains(r.text, lastOp.keywords[k])

MaxList == 2
MaxRules == 2

\* Records parse_rules_file yields: an optional [R###] code ("" for None)
\* and the rule text.
RuleRecords == [code : {"", "R001", "R002"}, text : {P001Text, P002Text}]

\* Records parse_prompts_file yields: a [P###] code and the prompt text.
PromptRecords == [code : {"P001"}, text : {P001Text, P002Text}]

ListsOf(S) == UNION {[1..k -> S] : k \in 1..MaxList}

ById(tbl, id) == CHOOSE r \in tbl : r.id = id

\* SELECT id FROM hls_rules WHERE rule_code = $1, 0 for no row.
IdByCode(tbl, code) ==
    IF code # "" /\ \E r \in tbl : r.code = code
    THEN (CHOOSE r \in tbl : r.code = code).id ELSE 0

\* SELECT id FROM hls_rules WHERE rule_text = $1: any of the rows with that
\* text, {0} for no row.
IdsByText(tbl, text) ==
    IF \E r \in tbl : r.text = text
    THEN {r.id : r \in {x \in tbl : x.text = text}} ELSE {0}

\* One record of import_rules_to_db, existing_id being what the lookups (by
\* code, then by text) returned.
UpsertRule(tbl, rule, mode, existing_id) ==
    IF existing_id # 0
    THEN IF mode = "skip" THEN tbl
         ELSE (tbl \ {ById(tbl, existing_id)})
                \cup {[ById(tbl, existing_id) EXCEPT !.code = rule.code]}
    ELSE tbl \cup {[id |-> Cardinality(tbl) + 1, code |-> rule.code,
                    text |-> rule.text, type |-> "official"]}

\* The tables import_rules_to_db can leave: the records in order, each
\* looked up by code and, when that finds nothing, by text.
RECURSIVE ImportRulesToDb(_, _, _)
ImportRulesToDb(tbl, list, mode) ==
    IF list = <<>> THEN {tbl}
    ELSE LET rule == Head(list)
             byCode == IdByCode(tbl, rule.code)
             found == IF byCode # 0 THEN {byCode} ELSE IdsByText(tbl, rule.text)
         IN  UNION {ImportRulesToDb(UpsertRule(tbl, rule, mode, id), Tail(list), mode) :
                        id \in found}

\* The UPDATE or INSERT would give a second row the text: raises where the
\* schema declares rule_text unique, and the record is skipped.
TextTaken(tbl, text, own_id) ==
    /\ "hls_rules.rule_text" \in uniqueKeys
    /\ \E r \in tbl : r.text = text /\ r.id # own_id

\* One record of import_prompts_to_db: looked up by code only.
UpsertPrompt(tbl, prompt, mode) ==
    LET existing_id == IdByCode(tbl, prompt.code)
    IN  IF TextTaken(tbl, prompt.text, existing_id) THEN tbl
        ELSE IF existing_id # 0
        THEN IF mode = "skip" THEN tbl
             ELSE (tbl \ {ById(tbl, existing_id)})
                    \cup {[ById(tbl, existing_id) EXCEPT !.text = prompt.text]}
        ELSE tbl \cup {[id |-> Cardinality(tbl) + 1, code |-> prompt.code,
                        text |-> prompt.text, type |-> "user_prompt"]}

RECURSIVE ImportPromptsToDb(_, _, _)
ImportPromptsToDb(tbl, list, mode) ==
    IF list = <<>> THEN tbl
    ELSE ImportPromptsToDb(UpsertPrompt(tbl, Head(list), mode), Tail(list), mode)

IngestRest == <<rbVars, projects, iters, synths, eff, uniqueIter, query,
                matched, track, extVars>>

\* python import_hls_rules.py [--mode upsert|skip]
ImportRules(list, mode) ==
    /\ \E tbl \in ImportRulesToDb(rules, list, mode) :
            /\ Cardinality(tbl) <= MaxRules
            /\ rules' = tbl
    /\ lastOp' = [op |-> "import_rules", list |-> list, mode |-> mode]
    /\ prevOp' = lastOp.op
    /\ UNCHANGED IngestRest

\* python import_user_prompts.py [--mode upsert|skip]
ImportPrompts(list, mode) ==
    /\ Cardinality(ImportPromptsToDb(rules, list, mode)) <= MaxRules
    /\ rules' = ImportPromptsToDb(rules, list, mode)
    /\ lastOp' = [op |-> "import_prompts", list |-> list, mode |-> mode]
    /\ prevOp' = lastOp.op
    /\ UNCHANGED IngestRest

InitIngest ==
    /\ RollbackIdle
    /\ rules = {}
    /\ projects = {}
    /\ iters = <<>>
    /\ synths = {}
    /\ eff = {}
    /\ uniqueIter = FALSE
    /\ query = NoOp
    /\ matched = NoOp
    /\ lastOp = NoOp
    /\ prevOp = "none"
    /\ track = <<>>
    /\ logs = <<>>
    /\ answers = Unasked
    /\ deleted = {}
    /\ uniqueKeys \in SUBSET {"hls_rules.rule_text"}
    /\ calls = <<>>

NextIngest ==
    \/ \E list \in ListsOf(RuleRecords), mode \in {"upsert", "skip"} :
            ImportRules(list, mode)
    \/ \E list \in ListsOf(PromptRecords), mode \in {"upsert", "skip"} :
            ImportPrompts(list, mode)

SpecIngest == InitIngest /\ [][NextIngest]_vars

\* C27: an ingestion run leaves every rule that had a non-empty code with
\* that code.
C27_CodeImmutable ==
    [][\A r \in rules : r.code # "" =>
            \E after \in rules' : after.id = r.id /\ after.code = r.code]_vars

\* C28: no two rules share a non-empty code, and an upsert run over the list
\* the upsert run before it ingested inserts no row.
C28_ReingestionInsertsNothing ==
    /\ [](\A r1 \in rules, r2 \in rules :
            (r1.code # "" /\ r1.code = r2.code) => r1 = r2)
    /\ [][(/\ lastOp.op \in {"import_rules", "import_prompts"}
           /\ lastOp.mode = "upsert"
           /\ lastOp' = lastOp) =>
                Cardinality(rules') = Cardinality(rules)]_vars

(***************************************************************************)
(* Two clients in record_complete_iteration at once: each request runs in  *)
(* its own connection and transaction (READ COMMITTED), the SELECT of the  *)
(* rules_effectiveness row and the UPDATE that follows being two           *)
(* statements.                                                             *)
(***************************************************************************)

Callers == {1, 2}

\* Each client records an iteration of its own project, both of type fir.
ProjectOf(c) == IF c = 1 THEN "px" ELSE "py"

CallIdle == [pc |-> "idle", existing |-> {}, success |-> FALSE, ii |-> <<0, 0>>]

\* rules_effectiveness rows of (u1, fir) the requests may find: none, or a
\* row recorded earlier.
EarlierRows ==
    {{}} \cup {{[id |-> 1, rule |-> "u1", ptype |-> "fir", times |-> t,
                 succ |-> s, avg |-> IF s = 0 THEN Zero ELSE Num(6)]} :
                    t \in 1..2, s \in 0..1}

RaceRest == <<rbVars, rules, uniqueIter, query, matched, lastOp, prevOp,
              track, logs, answers, deleted, uniqueKeys>>

\* The request up to its SELECT ... FROM rules_effectiveness: the keyword
\* "merge" selects rule u1 and the row of (u1, fir) is read.
BeginComplete(c, success, previous_ii, current_ii) ==
    /\ calls.of[c].pc = "idle"
    /\ calls' = [of |-> [calls.of EXCEPT ![c] =
                            [pc |-> "read", existing |-> Existing(eff, "u1", "fir"),
                             success |-> success, ii |-> <<previous_ii, current_ii>>]],
                 order |-> Append(calls.order, <<c, "read">>)]
    /\ UNCHANGED <<projects, iters, synths, eff, RaceRest>>

\* The rows of project, iteration and synthesis result the request inserts.
CommitRows(c) ==
    /\ projects' = projects \cup {[id |-> ProjectOf(c), name |-> "FIR_Design",
                                   at |-> Stamp]}
    /\ iters' = Append(iters, [id |-> Stamp + 1, project |-> ProjectOf(c),
                               num |-> NextIterationNumber(iters, ProjectOf(c))])
    /\ synths' = synths \cup {[id |-> Stamp + 2, iter |-> Stamp + 1,
                               ii |-> calls.of[c].ii[2]]}

\* A write that computes the aggregate from the row as it is now.
CommitComplete_Atomic(c) ==
    /\ calls.of[c].pc = "read"
    /\ eff' = RecordIterationEffectiveness(eff, "u1", "fir", calls.of[c].success,
                                           calls.of[c].ii[1], calls.of[c].ii[2])
    /\ CommitRows(c)
    /\ calls' = [of |-> [calls.of EXCEPT ![c].pc = "done"],
                 order |-> Append(calls.order, <<c, "write">>)]
    /\ UNCHANGED RaceRest

\* The rest of the request: the aggregate computed from the row that was
\* read is written by UPDATE ... WHERE id = $4, or a row is INSERTed when
\* none was read, and the transaction commits.  An INSERT of a second row
\* for (rule_id, project_type) raises and the transaction is rolled back.
CommitComplete(c) ==
    /\ calls.of[c].pc = "read"
    /\ LET me == calls.of[c]
           computed == RecordIterationEffectiveness(me.existing, "u1", "fir",
                            me.success, me.ii[1], me.ii[2])
           row == CHOOSE r \in computed : TRUE
       IN  IF me.existing = {} /\ Existing(eff, "u1", "fir") # {}
           THEN UNCHANGED <<projects, iters, synths, eff>>
           ELSE /\ eff' = {r \in eff : r.id # row.id} \cup {row}
                /\ CommitRows(c)
    /\ calls' = [of |-> [calls.of EXCEPT ![c].pc = "done"],
                 order |-> Append(calls.order, <<c, "write">>)]
    /\ UNCHANGED RaceRest

InitRace ==
    /\ RollbackIdle
    /\ rules = Catalogue
    /\ projects = {}
    /\ iters = <<>>
    /\ synths = {}
    /\ eff \in EarlierRows
    /\ uniqueIter = FALSE
    /\ query = NoOp
    /\ matched = NoOp
    /\ lastOp = NoOp
    /\ prevOp = "none"
    /\ track = <<>>
    /\ logs = <<>>
    /\ answers = Unasked
    /\ deleted = {}
    /\ uniqueKeys = {}
    /\ calls = [of |-> [c \in Callers |-> CallIdle], order |-> <<>>]

NextRace ==
    \/ \E c \in Callers, success \in BOOLEAN, ii \in {<<134, 128>>, <<128, 128>>} :
            BeginComplete(c, success, ii[1], ii[2])
    \/ \E c \in Callers : CommitComplete(c)

SpecRace == InitRace /\ [][NextRace]_vars

\* Both requests read the row before either wrote.
ReadReadWriteWrite ==
    /\ Len(calls.order) = 4
    /\ calls.order[1][2] = "read"
    /\ calls.order[2][2] = "read"
    /\ calls.of[1].existing # {}

\* C30: after two requests on an existing row of (rule, project type) that
\* interleaved as read, read, write, write, the row's times_applied is one
\* above what it was, not two, and its success_count at most one above.
C30_LostUpdate ==
    ReadReadWriteWrite =>
        \A base \in calls.of[1].existing, row \in Existing(eff, "u1", "fir") :
            /\ row.times = base.times + 1
            /\ row.succ <= base.succ + 1

\* Two successful applications interleaved so, one of them counted.
C30_Witness ==
    /\ ReadReadWriteWrite
    /\ calls.of[1].success /\ calls.of[1].ii = <<134, 128>>
    /\ calls.of[2].success /\ calls.of[2].ii = <<134, 128>>
    /\ \E row \in eff : row.times = 2 /\ row.succ = 1

(***************************************************************************)
(* Order and exactness of an executed rollback.                            *)
(***************************************************************************)

\* The table kinds of a list of manifest entries.
KindsOf(entries) == {entries[k].table : k \in 1..Len(entries)}

\* The deletions of one table kind follow the manifest's order.
WithinKindOrder ==
    \A t \in KindsOf(issued) :
        TableRecords(issued, t) = TableRecords(log_data.records, t)

\* Every table kind is processed in one run of consecutive statements.
EachKindOnce ==
    \A a, b, c \in 1..Len(issued) :
        (a < b /\ b < c /\ issued[a].table = issued[c].table) =>
            issued[b].table = issued[a].table

\* C34: a rollback that ran to success deleted the records of each table
\* kind in the order in which the manifest lists them, and the table kinds
\* it processed are exactly the distinct kinds present in the manifest, each
\* processed once.
C34_ManifestOrderWithinKind ==
    (pc = "done" /\ Executed /\ told = "success") =>
        /\ WithinKindOrder
        /\ EachKindOnce
        /\ KindsOf(issued) = KindsOf(log_data.records)

\* C38: after a rollback that reported success the store holds what it held
\* before the call minus exactly the rows the manifest lists: every listed
\* row is absent and every row that is not listed is still there.
C38_SuccessfulExecuteIsExact ==
    (pc = "done" /\ Executed /\ told = "success") =>
        store = store0 \ ListedRows

(***************************************************************************)
(* What a by-project manifest takes along.                                 *)
(***************************************************************************)

\* C36: under SpecApi only the client's project records rule applications.
\* A confirmed rollback of the manifest that logger_by_project generated
\* for a project deletes rules_effectiveness rows only if that project is
\* the one whose recordings wrote them: rolling back a project that
\* recorded no rule application removes no statistics.
C36_ManifestOnlyOwnStatistics ==
    [][\A project_name \in {"FIR_Design", "B"}, iteration \in 0..2 :
            (RollbackProject(project_name, iteration) /\ lastOp'.ok) =>
                \A row \in eff \ eff' :
                    \A pr \in projects \ projects' : pr.id \in ClientIds]_vars

(***************************************************************************)
(* The fall-through of find_matching_rule, checked under SpecMatch.        *)
(***************************************************************************)

\* C33: when the code given equals no rule's code and the description
\* equals some rule's full text up to case, find_matching_rule returns a
\* rule with that text; it returns no match only when no rule carries the
\* code and no rule's text equals the description up to case.
C33_UnknownCodeFallsThroughToText ==
    query.op = "find" =>
        LET codeHit == \E r \in rules : query.code # "" /\ r.code = query.code
            textHit == \E r \in rules : query.desc # ""
                                        /\ Lower(r.text) = Lower(query.desc)
        IN  /\ (query.code # "" /\ ~codeHit /\ textHit) =>
                    /\ matched \in rules
                    /\ Lower(matched.text) = Lower(query.desc)
            /\ (matched = NoRule) => (~codeHit /\ ~textHit)

\* The code R001 is on no rule and the description is P001's text in lower
\* case: the rule with that text is returned.
C33_Witness ==
    /\ query.op = "find"
    /\ query.code = "R001"
    /\ query.desc = P001Lower
    /\ \A r \in rules : r.code # "R001"
    /\ matched \in rules
    /\ matched.text = P001Text

(***************************************************************************)
(* The update_effectiveness endpoint against accumulate mode, checked      *)
(* under SpecAgg.                                                          *)
(***************************************************************************)

\* C35: a call of the update_effectiveness endpoint with an improvement
\* leaves rules_effectiveness as the accumulate-mode writer would on the
\* same row and input: times_applied + 1, success_count + 1 on success, the
\* average the mean over the successful applications, and (1, 1 or 0, the
\* improvement or 0) for a pair without a row.
C35_EndpointIsAccumulate ==
    [][\A pair \in AggPairs, was_successful \in BOOLEAN, ii_improvement \in {Num(6)} :
            EndpointCall(pair, was_successful, ii_improvement) =>
                eff' = RecordAccumulate(eff, pair[1], pair[2], was_successful,
                                        ii_improvement)]_vars

(***************************************************************************)
(* Attribution of a rule application, checked under SpecRecord.            *)
(***************************************************************************)

\* The code and the description the last call supplied.  The client of
\* complete_iteration names the rule by keywords only; the endpoint reads
\* neither rule_code nor rule_description.
SuppliedCode == IF lastOp.op = "endpoint" THEN lastOp.code ELSE ""

SuppliedDescription == IF lastOp.op = "endpoint" THEN lastOp.text ELSE ""

\* C32: every rules_effectiveness row a recording call created or updated
\* belongs to a rule whose code is the code the call supplied or whose full
\* text equals the description it supplied up to case; a keyword that is
\* only part of the rule's text credits nothing.
C32_AttributionIsPrecise ==
    lastOp.op \in {"endpoint", "complete"} =>
        \A row \in eff \ lastOp.effBefore :
            \E R \in rules :
                /\ R.id = row.rule
                /\ \/ SuppliedCode # "" /\ R.code = SuppliedCode
                   \/ /\ SuppliedDescription # ""
                      /\ Lower(R.text) = Lower(SuppliedDescription)

(***************************************************************************)
(* The overwrite import next to records written through the API.  The rows *)
(* carry the fields the import rewrites: code_snapshot of an iteration,    *)
(* ii_achieved of a synthesis result.                                      *)
(***************************************************************************)

\* Rows of design_iterations, and of synthesis_results.
MaxFrame == 5

\* code_snapshot and ii_achieved of FIR128_DATA's iterations 1, 2, 3.
ScriptSnapshot(n) == <<"fir128_baseline", "fir128_merged", "fir128_pipelined">>[n]

ScriptII(n) == <<264, 134, 128>>[n]

FrameCall(op) ==
    /\ lastOp' = [op |-> op]
    /\ prevOp' = lastOp.op
    /\ UNCHANGED <<deleted, ApiRest>>

\* POST /api/design/start with a code snapshot; the INSERT raises for a
\* project that is not there.
StartSnapshotIteration(project_id, code_snapshot) ==
    /\ Len(iters) < MaxFrame
    /\ IF ProjectExists(projects, project_id)
       THEN iters' = Append(iters, [id |-> Len(iters) + 1, project |-> project_id,
                                    num |-> NextIterationNumber(iters, project_id),
                                    code |-> code_snapshot])
       ELSE UNCHANGED iters
    /\ UNCHANGED <<projects, synths, eff>>
    /\ FrameCall("start")

\* POST /api/design/{iteration_id}/synthesis_result.
RecordSnapshotResult(iteration_id, ii_achieved) ==
    /\ Cardinality(synths) < MaxFrame
    /\ IF /\ \E it \in IterRange(iters) : it.id = iteration_id
          /\ ~(/\ "synthesis_results.iteration_id" \in uniqueKeys
               /\ \E s \in synths : s.iter = iteration_id)
       THEN synths' = synths \cup {[id |-> Cardinality(synths) + 1,
                                    iter |-> iteration_id, ii |-> ii_achieved]}
       ELSE UNCHANGED synths
    /\ UNCHANGED <<projects, iters, eff>>
    /\ FrameCall("synthesis")

\* An UPDATE that rewrites every iteration of the row's project.
UpdateSnapshot_WholeProject(its, id, code_snapshot) ==
    LET mine == {its[k].project : k \in {j \in DOMAIN its : its[j].id = id}}
    IN  [k \in DOMAIN its |->
            IF its[k].project \in mine THEN [its[k] EXCEPT !.code = code_snapshot]
            ELSE its[k]]

\* UPDATE design_iterations SET ..., code_snapshot = $2, ... WHERE id = $10
UpdateSnapshot(its, id, code_snapshot) ==
    [k \in DOMAIN its |->
        IF its[k].id = id THEN [its[k] EXCEPT !.code = code_snapshot]
        ELSE its[k]]

\* Step 2 of the examples job on rows with a snapshot: the iteration found
\* by (project_id, iteration_number) is rewritten, one not found is inserted.
RECURSIVE OverwriteIterations(_, _, _)
OverwriteIterations(its, ids, numbers) ==
    IF numbers = <<>> THEN [its |-> its, ids |-> ids]
    ELSE LET n == Head(numbers)
             found == IterationIds(its, FirProject.id, n)
         IN  IF found # {}
             THEN LET existing == CHOOSE id \in found : TRUE
                  IN  OverwriteIterations(
                        UpdateSnapshot(its, existing, ScriptSnapshot(n)),
                        Append(ids, existing), Tail(numbers))
             ELSE OverwriteIterations(
                        Append(its, [id |-> Len(its) + 1, project |-> FirProject.id,
                                     num |-> n, code |-> ScriptSnapshot(n)]),
                        Append(ids, Len(its) + 1), Tail(numbers))

\* SELECT id FROM synthesis_results WHERE iteration_id = $1: 0 for no row,
\* else the id of any result of the iteration.
ResultLookup(ss, iteration_id) ==
    IF {s \in ss : s.iter = iteration_id} = {} THEN {0}
    ELSE {s.id : s \in {x \in ss : x.iter = iteration_id}}

\* Step 3 of the examples job: the result the lookup returned is rewritten
\* WHERE id = $7, a result is inserted for an iteration without one.
RECURSIVE OverwriteResults(_, _, _, _)
OverwriteResults(ss, ids, pick, n) ==
    IF n > Len(ids) THEN ss
    ELSE IF pick[n] # 0
         THEN OverwriteResults({IF s.id = pick[n] THEN [s EXCEPT !.ii = ScriptII(n)]
                                ELSE s : s \in ss}, ids, pick, n + 1)
         ELSE OverwriteResults(ss \cup {[id |-> Cardinality(ss) + 1, iter |-> ids[n],
                                         ii |-> ScriptII(n)]}, ids, pick, n + 1)

\* import_fir128_with_effectiveness of examples/fir128, run on these rows.
ImportSnapshots ==
    LET done == OverwriteIterations(iters, <<>>, FirIterations)
        e == RecordAppliedOverwrite(eff, rules, FirRulesApplied)
    IN  \E r1 \in ResultLookup(synths, done.ids[1]),
           r2 \in ResultLookup(synths, done.ids[2]),
           r3 \in ResultLookup(synths, done.ids[3]) :
            LET ss == OverwriteResults(synths, done.ids, <<r1, r2, r3>>, 1)
            IN  /\ Len(done.its) <= MaxFrame
                /\ Cardinality(ss) <= MaxFrame
                /\ projects' = {pr \in projects : pr.id # FirProject.id}
                                    \cup {FirProject}
                /\ iters' = done.its
                /\ synths' = ss
                /\ eff' = e
                /\ FrameCall("import_examples")

InitFrame ==
    /\ InitApi
    /\ fkPolicy = "restrict"
    /\ uniqueKeys \subseteq {"synthesis_results.iteration_id"}

NextFrame ==
    \/ \E code_snapshot \in {"client_a", "client_b"} :
            StartSnapshotIteration(FirProject.id, code_snapshot)
    \/ \E iteration_id \in 1..MaxFrame, ii_achieved \in {100, 264} :
            RecordSnapshotResult(iteration_id, ii_achieved)
    \/ ImportSnapshots

SpecFrame == InitFrame /\ [][NextFrame]_vars

\* The iterations of the script's project that the script does not hold.
Unscripted(its) ==
    {it \in IterRange(its) : /\ it.project = FirProject.id
                             /\ it.num \notin {FirIterations[k] : k \in 1..Len(FirIterations)}}

\* C37: a run of the overwrite import leaves every iteration of its project
\* whose number is not 1, 2 or 3 with the fields it had, and leaves the
\* synthesis results of such an iteration as they were.
C37_ImportLeavesOtherIterations ==
    [][lastOp'.op = "import_examples" =>
            \A it \in Unscripted(iters) :
                /\ it \in IterRange(iters')
                /\ {s \in synths' : s.iter = it.id} = {s \in synths : s.iter = it.id}]_vars

\* The import has run again after iteration 4 and its result were recorded
\* through the API; both carry the client's values.
C37_Witness ==
    /\ lastOp.op = "import_examples"
    /\ prevOp = "synthesis"
    /\ \E it \in Unscripted(iters) :
            /\ it.num = 4
            /\ it.code = "client_a"
            /\ \E s \in synths : s.iter = it.id /\ s.ii = 100

(***************************************************************************)
(* record_complete_iteration statement by statement: the writes of a call  *)
(* up to the statement that raises, and the transaction around them.       *)
(***************************************************************************)

\* A rule application of the request; given = FALSE for rule_keywords None.
Application(given, rule_keywords) == [given |-> given, keywords |-> rule_keywords]

Applications ==
    {Application(TRUE, <<"merge">>), Application(TRUE, <<"unroll">>),
     Application(FALSE, <<>>)}

ApplicationLists ==
    {<<>>} \cup {<<a>> : a \in Applications}
           \cup {<<a, b>> : a \in Applications, b \in Applications}

\* The statements that may raise for a reason of the store (connection
\* lost, constraint of the schema): none, or the INSERT of that table.
Faults == {"none", "projects", "design_iterations", "synthesis_results"}

\* The tables as the statements executed so far have left them.
Written(ps, its, ss, e, raised, step, wrote) ==
    [ps |-> ps, its |-> its, ss |-> ss, e |-> e, raised |-> raised,
     step |-> step, wrote |-> wrote]

Raise(w, step) == [w EXCEPT !.raised = TRUE, !.step = step]

StampOf(w) == Cardinality(w.ps) + Len(w.its) + Cardinality(w.ss) + 1

\* Step 1: the project is created when it is not there.
EnsureProject(w, project_id, project_name, fault) ==
    LET name == IF project_name = "" THEN "FIR_Design" ELSE project_name
    IN  IF ProjectExists(w.ps, project_id) THEN w
        ELSE IF fault = "projects" \/ NameTaken(name) THEN Raise(w, "projects")
        ELSE [w EXCEPT !.ps = w.ps \cup {[id |-> project_id, name |-> name,
                                           at |-> StampOf(w)]},
                       !.wrote = w.wrote + 1]

\* Steps 2 and 3: the iteration under the next number.
InsertIteration(w, project_id, fault) ==
    IF w.raised THEN w
    ELSE IF fault = "design_iterations" THEN Raise(w, "design_iterations")
    ELSE [w EXCEPT !.its = Append(w.its, [id |-> StampOf(w), project |-> project_id,
                                          num |-> NextIterationNumber(w.its, project_id)]),
                   !.wrote = w.wrote + 1]

\* Step 4: the synthesis result of the iteration just inserted.
InsertResult(w, current_ii, fault) ==
    IF w.raised THEN w
    ELSE IF fault = "synthesis_results" THEN Raise(w, "synthesis_results")
    ELSE [w EXCEPT !.ss = w.ss \cup {[id |-> StampOf(w),
                                      iter |-> w.its[Len(w.its)].id,
                                      ii |-> current_ii]},
                   !.wrote = w.wrote + 1]

\* Step 5: `for keyword in rule_app.rule_keywords` raises TypeError on None;
\* a matched rule has its statistics written (II 134 -> 128, successful).
RECURSIVE RecordApplications(_, _, _)
RecordApplications(w, rs, rules_applied) ==
    IF w.raised \/ rules_applied = <<>> THEN w
    ELSE LET rule_app == Head(rules_applied)
         IN  IF ~rule_app.given THEN Raise(w, "rules_applied")
             ELSE LET rule == CHOOSE r \in KeywordRule(rs, rule_app.keywords) : TRUE
                  IN  IF rule = NoRule
                      THEN RecordApplications(w, rs, Tail(rules_applied))
                      ELSE RecordApplications(
                            [w EXCEPT !.e = FreshEffId(w.e, RecordIterationEffectiveness(
                                                w.e, rule.id, "fir", TRUE, 134, 128)),
                                      !.wrote = w.wrote + 1],
                            rs, Tail(rules_applied))

\* Every statement takes effect at once; an exception leaves what was written.
InTransaction_Autocommit(before, w) == w

\* async with conn.transaction(): left by an exception, the block rolls
\* back; left by the return, it commits.
InTransaction(before, w) ==
    IF w.raised
    THEN [before EXCEPT !.raised = TRUE, !.step = w.step, !.wrote = w.wrote]
    ELSE w

\* POST /api/design/complete_iteration with a list of rule applications.
CompleteIterationTx(project_id, project_name, rules_applied, fault) ==
    LET before == Written(projects, iters, synths, eff, FALSE, "", 0)
        w1 == EnsureProject(before, project_id, project_name, fault)
        w2 == InsertIteration(w1, project_id, fault)
        w3 == InsertResult(w2, 128, fault)
        w4 == RecordApplications(w3, rules, rules_applied)
        after == InTransaction(before, w4)
    IN  /\ StampOf(before) + 2 <= MaxRows
        /\ \A row \in w4.e : row.times <= MaxApplied
        /\ projects' = after.ps
        /\ iters' = after.its
        /\ synths' = after.ss
        /\ eff' = after.e
        /\ lastOp' = [op |-> "complete_tx", raised |-> after.raised,
                      step |-> after.step, wrote |-> after.wrote]
        /\ prevOp' = lastOp.op
        /\ UNCHANGED <<deleted, ApiRest>>

InitAtomic ==
    /\ InitApi
    /\ fkPolicy = "restrict"
    /\ uniqueKeys \subseteq {"projects.name"}

NextAtomic ==
    \/ CreateProject("FIR_Design")
    \/ \E project_id \in {"px", "py"}, project_name \in {"", "B"},
          rules_applied \in ApplicationLists, fault \in Faults :
            CompleteIterationTx(project_id, project_name, rules_applied, fault)

SpecAtomic == InitAtomic /\ [][NextAtomic]_vars

\* C39: a call of record_complete_iteration in which a statement raised -
\* the project's, the iteration's or the result's INSERT, or a rule
\* application, for instance one given without keywords - leaves projects,
\* design_iterations, synthesis_results and rules_effectiveness as they
\* were before the call.
C39_CompleteIterationAllOrNothing ==
    [][(lastOp'.op = "complete_tx" /\ lastOp'.raised) =>
            UNCHANGED <<projects, iters, synths, eff>>]_vars

\* The second rule application came without keywords after the project,
\* the iteration, the result and the first application's statistics had
\* been written in the transaction; the tables hold none of it.
C39_Witness ==
    /\ lastOp.op = "complete_tx"
    /\ lastOp.raised
    /\ lastOp.step = "rules_applied"
    /\ lastOp.wrote = 4
    /\ projects = {}
    /\ eff = {}

(***************************************************************************)
(* Two rollback commands on one pending manifest, each on its own          *)
(* connection.  The store is PostgreSQL at READ COMMITTED: a row deleted   *)
(* by a transaction that has not ended stays visible to the other one and  *)
(* is locked, and a statement that needs it waits for that transaction.    *)
(***************************************************************************)

\* Entries of the manifest both commands are given.
MaxPlan == 3

Executors == {1, 2}

OtherExecutor(p) == 3 - p

ExecutorIdle == [pc |-> "idle", n |-> 0, gone |-> {}, result |-> "none"]

\* Rows as executor p's transaction sees them: committed rows without the
\* ones it has deleted itself.
ViewOf(p) == store \ calls[p].gone

\* Rows the other executor's open transaction has deleted and holds locked.
LockedFor(p) ==
    IF calls[OtherExecutor(p)].pc = "tx" THEN calls[OtherExecutor(p)].gone ELSE {}

\* The statement executor p issues next.
ExecutorNext(p) == DeletePlan(log.records)[calls[p].n + 1]

\* Rows the statement has to lock or look at: the row itself and, for the
\* foreign-key check or the cascade, the rows that reference it.
Needs(p) ==
    LET id == ExecutorNext(p).id
    IN  IF id \in ViewOf(p) /\ TableOf(id) = ExecutorNext(p).table
        THEN WithDependents(ViewOf(p), id)
        ELSE {}

Waits(p) == Needs(p) \cap LockedFor(p) # {}

\* A DELETE that raises when the row is no longer there.
ExecutorStatement_MustMatch(st, entry, policy) ==
    DeleteRow_MustExist(st, entry.table, entry.id, policy)

\* await self.conn.execute("DELETE FROM {table} WHERE id = $1", rec_id)
ExecutorStatement(st, entry, policy) ==
    DeleteRow(st, entry.table, entry.id, policy)

TwoRest == <<backup, fkPolicy, pc, dry_run, log_data, store0, txStore, issued,
             overridden, committed, result, told, failure, rules, projects,
             iters, synths, eff, uniqueIter, query, matched, lastOp, prevOp,
             track, logs, answers, deleted, uniqueKeys>>

\* rollback(): the manifest is read and its status checked; a completed
\* manifest is not overridden, a pending one is confirmed and the
\* transaction opened.
ExecutorRollback(p) ==
    /\ calls[p].pc = "idle"
    /\ calls' = [calls EXCEPT ![p] =
                    IF log.status = "completed"
                    THEN [@ EXCEPT !.pc = "done", !.result = "refused"]
                    ELSE [@ EXCEPT !.pc = "tx"]]
    /\ UNCHANGED <<store, log, TwoRest>>

\* The next DELETE of the loops succeeds.
ExecutorDelete(p) ==
    /\ calls[p].pc = "tx"
    /\ calls[p].n < Len(DeletePlan(log.records))
    /\ ~Waits(p)
    /\ LET res == ExecutorStatement(ViewOf(p), ExecutorNext(p), fkPolicy)
       IN  /\ res.ok
           /\ calls' = [calls EXCEPT ![p].n = @ + 1,
                                     ![p].gone = @ \cup (ViewOf(p) \ res.st)]
    /\ UNCHANGED <<store, log, TwoRest>>

\* The next DELETE raises: the transaction is rolled back, rollback()
\* returns False.
ExecutorDeleteRaises(p) ==
    /\ calls[p].pc = "tx"
    /\ calls[p].n < Len(DeletePlan(log.records))
    /\ ~Waits(p)
    /\ ~ExecutorStatement(ViewOf(p), ExecutorNext(p), fkPolicy).ok
    /\ calls' = [calls EXCEPT ![p] = [pc |-> "done", n |-> @.n + 1, gone |-> {},
                                      result |-> "failed"]]
    /\ UNCHANGED <<store, log, TwoRest>>

\* The transaction block exits and commits.
ExecutorCommit(p) ==
    /\ calls[p].pc = "tx"
    /\ calls[p].n = Len(DeletePlan(log.records))
    /\ store' = store \ calls[p].gone
    /\ calls' = [calls EXCEPT ![p].pc = "write", ![p].gone = {}]
    /\ UNCHANGED <<log, TwoRest>>

\* _update_log_status, then rollback() returns True.
ExecutorUpdateLogStatus(p) ==
    /\ calls[p].pc = "write"
    /\ log' = [log EXCEPT !.status = "completed", !.stamped = TRUE]
    /\ calls' = [calls EXCEPT ![p].pc = "done", ![p].result = "success"]
    /\ UNCHANGED <<store, TwoRest>>

InitTwo ==
    /\ store \in Snapshots
    /\ backup = store
    /\ fkPolicy \in {"restrict", "cascade"}
    /\ log \in {NewLog("MANUAL", 0, EntriesOf(rows)) :
                    rows \in SeqsUpTo(ManifestRows, MaxPlan)}
    /\ pc = "idle"
    /\ dry_run = FALSE
    /\ log_data = NoLog
    /\ store0 = store
    /\ txStore = {}
    /\ issued = <<>>
    /\ overridden = FALSE
    /\ committed = FALSE
    /\ result = "none"
    /\ told = "none"
    /\ failure = "none"
    /\ rules = {}
    /\ projects = {}
    /\ iters = <<>>
    /\ synths = {}
    /\ eff = {}
    /\ uniqueIter = FALSE
    /\ query = NoOp
    /\ matched = NoOp
    /\ lastOp = NoOp
    /\ prevOp = "none"
    /\ track = <<>>
    /\ logs = <<>>
    /\ answers = Unasked
    /\ deleted = {}
    /\ uniqueKeys = {}
    /\ calls = [p \in Executors |-> ExecutorIdle]

NextTwo ==
    \E p \in Executors :
        \/ ExecutorRollback(p)
        \/ ExecutorDelete(p)
        \/ ExecutorDeleteRaises(p)
        \/ ExecutorCommit(p)
        \/ ExecutorUpdateLogStatus(p)

SpecTwo == InitTwo /\ [][NextTwo]_vars

\* One rollback of the manifest on its own: the statements in order on the
\* store; ok is FALSE when one of them raises.
RECURSIVE SingleExecute(_, _, _)
SingleExecute(st, plan, policy) ==
    IF plan = <<>> THEN [ok |-> TRUE, st |-> st]
    ELSE LET res == DeleteRow(st, Head(plan).table, Head(plan).id, policy)
         IN  IF res.ok THEN SingleExecute(res.st, Tail(plan), policy)
             ELSE [ok |-> FALSE, st |-> st]

\* Both commands passed the status check and have returned.
BothExecuted ==
    \A p \in Executors : calls[p].pc = "done" /\ calls[p].result # "refused"

\* C31: two rollback commands that both read the manifest as pending do no
\* more and no less than one: they never wait for each other for ever, and
\* when both have returned each has the outcome a single execute has (none
\* fails over a row the other deleted), the store holds what it holds after
\* a single execute, and the manifest has the status a single execute
\* leaves, completed when the single execute succeeds.
C31_DoubleExecuteHarmless ==
    LET single == SingleExecute(store0, DeletePlan(log.records), fkPolicy)
    IN  /\ ~(\A p \in Executors : /\ calls[p].pc = "tx"
                                  /\ calls[p].n < Len(DeletePlan(log.records))
                                  /\ Waits(p))
        /\ BothExecuted =>
            /\ \A p \in Executors :
                    calls[p].result = IF single.ok THEN "success" ELSE "failed"
            /\ store = IF single.ok THEN single.st ELSE store0
            /\ log.status = IF single.ok THEN "completed" ELSE "pending"

\* Both commands issued both statements of a manifest that lists rows of
\* the store, both succeeded, and the rows are gone.
C31_Witness ==
    /\ BothExecuted
    /\ \A p \in Executors : calls[p].result = "success" /\ calls[p].n = 2
    /\ log.records = <<EntryOf("i3"), EntryOf("s3")>>
    /\ store0 = FullStore
    /\ store = FullStore \ {"i3", "s3"}
    /\ log.status = "completed"

====
